---- MODULE Spec2Model ----
(***************************************************************************)
(* Verification model of the search core of PerfectInformationGame:       *)
(*   src/src/move_selection/mini_max.py  (MiniMax with pruning)            *)
(*   src/src/move_selection/mcts.py      (search nodes, drivers, merge)    *)
(*   src/src/heuristics/Network.py       (Network.initialize)              *)
(*                                                                         *)
(* A game is a finite tree of positions.  Positions are numbered 1..N;     *)
(* game.moves[p] is the ordered sequence of successors of p (empty for a   *)
(* position where the game is over), game.winner[p] the outcome of a       *)
(* finished position and game.p1[p] whether player 1 is to move at p.      *)
(***************************************************************************)
EXTENDS Integers, Sequences, FiniteSets, TLC

VARIABLES game,      \* the GameClass the controllers are constructed with
          hfun,      \* MiniMax.heuristic_func, a value per position
          mm,        \* the last MiniMax.choose_move call and what it returned
          variant,   \* "rollout" (network is None) or "heuristic"
          net,       \* the evaluator: a value and a prior vector per position,
                     \* or the Network object whose initialize() is called
          batch,     \* rollout_batch_size
          nodes,     \* the search nodes that exist, by object identity
          root,      \* the node the driver holds as root
          best_node, \* what the driver's last choose_expansion_node returned
          mode,      \* "sync" (MCTS.choose_move), "async" (AsyncMCTS.loop_func),
                     \* "root" (AsyncMCTSRoot), "direct" or "network"
          phase,     \* "ponder" before the opponent's move, "think" after it
          pc,        \* where the driver's loop stands
          choice,    \* what the last choose_best_node computed
          mg,        \* AsyncMCTSRoot: the manager's root, clones and merges, or the
                     \* session's processes; else the record of a call made by hand
          pipe       \* the host of a pondering session and the Pipe to its engine

mmvars == <<hfun, mm>>

searchvars == <<variant, net, batch, nodes, root, best_node, mode, phase, pc, choice, mg,
                pipe>>

vars == <<game, hfun, mm, variant, net, batch, nodes, root, best_node, mode, phase, pc,
          choice, mg, pipe>>

None == 0           \* Python's None where a position or node is expected

(***************************************************************************)
(* np.inf.  Values, depths and counts of the model stay far below it.      *)
(***************************************************************************)
Inf == 1000000

Outcomes == {-1, 0, 1}

Max(S) == CHOOSE x \in S : \A y \in S : y <= x

Min(S) == CHOOSE x \in S : \A y \in S : x <= y

Range(seq) == {seq[i] : i \in 1..Len(seq)}

----------------------------------------------------------------------------
(* Tic-tac-toe on the 3x3 board.  A board is the number                    *)
(* 1 + sum of mark * 3^(cell-1) over the cells 1..9, with mark 0 for       *)
(* empty, 1 for player 1 and 2 for player 2; the empty board is 1.  The    *)
(* game variable names the game instead of holding its table.              *)

Cells == 1..9

Lines == { {1, 2, 3}, {4, 5, 6}, {7, 8, 9}, {1, 4, 7}, {2, 5, 8}, {3, 6, 9},
           {1, 5, 9}, {3, 5, 7} }

Cell(p, i) == ((p - 1) \div (3 ^ (i - 1))) % 3

Marks(p, m) == Cardinality({i \in Cells : Cell(p, i) = m})

Wins(p, m) == \E line \in Lines : \A i \in line : Cell(p, i) = m

\* the boards of a game: player 1 begins and the players alternate
Board(p) == Marks(p, 1) - Marks(p, 2) \in {0, 1}

TicTacToeOver(p) == Wins(p, 1) \/ Wins(p, 2) \/ Marks(p, 0) = 0

\* the boards one mark of the mover away, in the order of the cells
TicTacToeMoves(p) ==
    IF ~Board(p) \/ TicTacToeOver(p) THEN <<>>
    ELSE LET mark == IF Marks(p, 1) = Marks(p, 2) THEN 1 ELSE 2
             empty == SelectSeq([i \in Cells |-> i], LAMBDA i : Cell(p, i) = 0)
         IN  [k \in 1..Len(empty) |-> p + mark * (3 ^ (empty[k] - 1))]

TicTacToe ==
    [moves  |-> [p \in 1..(3 ^ 9) |-> TicTacToeMoves(p)],
     winner |-> [p \in 1..(3 ^ 9) |-> IF Wins(p, 1) THEN 1 ELSE IF Wins(p, 2) THEN -1 ELSE 0],
     p1     |-> [p \in 1..(3 ^ 9) |-> Marks(p, 1) = Marks(p, 2)]]

TicTacToeGame == [name |-> "tic-tac-toe"]

----------------------------------------------------------------------------
(* The Game contract, read off the game value.                             *)

\* the table of the game played
Table == IF game = TicTacToeGame THEN TicTacToe ELSE game

Positions == 1..Len(game.moves)

get_possible_moves(p) == Table.moves[p]

is_over(p) == Table.moves[p] = <<>>

get_winner(p) == Table.winner[p]

is_player_1_turn(p) == Table.p1[p]

----------------------------------------------------------------------------
(* Bounded families of games.                                              *)

\* successor lists of the game trees; position 1 is the starting position
ShapeDeep == << <<2, 3>>, <<4, 5>>, <<6, 7>>, <<>>, <<>>, <<>>, <<8, 9>>, <<>>, <<>> >>

ShapeDeepFirst == << <<2, 3>>, <<4, 5>>, <<6, 7>>, <<>>, <<>>, <<8, 9>>, <<>>, <<>>, <<>> >>

\* the number of moves from the starting position to each position (both shapes)
DepthDeep == <<0, 1, 1, 2, 2, 2, 2, 3, 3>>

\* who moves at each depth: strictly alternating, or one side moving twice
TurnPatterns == { <<TRUE, FALSE, TRUE, FALSE>>,
                  <<FALSE, TRUE, FALSE, TRUE>>,
                  <<TRUE, TRUE, FALSE, FALSE>> }

Leaves(shape) == {p \in 1..Len(shape) : shape[p] = <<>>}

MakeGame(shape, depth, leafval, turns) ==
    [moves  |-> shape,
     winner |-> [p \in 1..Len(shape) |-> IF shape[p] = <<>> THEN leafval[p] ELSE 0],
     p1     |-> [p \in 1..Len(shape) |-> turns[depth[p] + 1]]]

GamesOf(shape, depth, patterns) ==
    { MakeGame(shape, depth, lv, t) : lv \in [Leaves(shape) -> Outcomes], t \in patterns }

GamesMM == GamesOf(ShapeDeep, DepthDeep, TurnPatterns)
              \cup GamesOf(ShapeDeepFirst, DepthDeep, TurnPatterns)

\* heuristic functions: a value in [-1, 1] for every position
HValues == {-1, 0, 1}

\* the heuristic functions tried on game g: they differ on the positions a
\* depth-bounded search can reach without the game being over
HeuristicsMM(g) ==
    LET inner == {p \in 2..Len(g.moves) : g.moves[p] # <<>>}
    IN  { [p \in 1..Len(g.moves) |-> IF p \in inner THEN f[p] ELSE 0] :
             f \in [inner -> HValues] }

----------------------------------------------------------------------------
(* MiniMax (mini_max.py)                                                   *)

MaxDepth == 3                       \* largest finite search depth tried

Depths == (1..MaxDepth) \cup {Inf}  \* Inf is MiniMax.solver's depth

\* depth - 1 in floating point: np.inf - 1 is np.inf
Dec(depth) == IF depth = Inf THEN Inf ELSE depth - 1

(***************************************************************************)
(* A search returns its value together with a record of what it did: the   *)
(* positions evaluate_position_recursive was called on (examined) and the  *)
(* positions heuristic_func was called on (hcalls).                        *)
(***************************************************************************)
Seen(value, examined, hcalls) ==
    [value |-> value, examined |-> examined, hcalls |-> hcalls]

RECURSIVE evaluate_position_recursive(_, _, _, _)
RECURSIVE evaluate_children(_, _, _, _, _, _)

\* evaluate_children with a pruning slip: a pruned branch returns the stale
\* best_heuristic instead of the value that caused the cut
evaluate_children_stale_prune(position, i, depth, is_maximizing, value_to_beat, acc) ==
    IF i > Len(get_possible_moves(position)) THEN acc
    ELSE LET r == evaluate_position_recursive(get_possible_moves(position)[i],
                      Dec(depth), ~is_maximizing, acc.value)
             heuristic == r.value
             best_heuristic == acc.value
             examined == acc.examined \cup r.examined
             hcalls == acc.hcalls \cup r.hcalls
         IN  IF is_maximizing /\ heuristic > best_heuristic
             THEN IF heuristic > value_to_beat
                  THEN Seen(best_heuristic, examined, hcalls)
                  ELSE evaluate_children(position, i + 1, depth, is_maximizing,
                           value_to_beat, Seen(heuristic, examined, hcalls))
             ELSE IF ~is_maximizing /\ heuristic < best_heuristic
             THEN IF heuristic < value_to_beat
                  THEN Seen(best_heuristic, examined, hcalls)
                  ELSE evaluate_children(position, i + 1, depth, is_maximizing,
                           value_to_beat, Seen(heuristic, examined, hcalls))
             ELSE evaluate_children(position, i + 1, depth, is_maximizing,
                      value_to_beat, Seen(best_heuristic, examined, hcalls))

\* evaluate_children that prunes at every improvement, whatever value_to_beat is
evaluate_children_prune_always(position, i, depth, is_maximizing, value_to_beat, acc) ==
    IF i > Len(get_possible_moves(position)) THEN acc
    ELSE LET r == evaluate_position_recursive(get_possible_moves(position)[i],
                      Dec(depth), ~is_maximizing, acc.value)
             heuristic == r.value
             best_heuristic == acc.value
             examined == acc.examined \cup r.examined
             hcalls == acc.hcalls \cup r.hcalls
         IN  IF (is_maximizing /\ heuristic > best_heuristic)
                \/ (~is_maximizing /\ heuristic < best_heuristic)
             THEN Seen(heuristic, examined, hcalls)
             ELSE evaluate_children(position, i + 1, depth, is_maximizing,
                      value_to_beat, Seen(best_heuristic, examined, hcalls))

\* the for loop of evaluate_position_recursive from the i-th successor on;
\* acc.value is best_heuristic
evaluate_children(position, i, depth, is_maximizing, value_to_beat, acc) ==
    IF i > Len(get_possible_moves(position)) THEN acc
    ELSE LET r == evaluate_position_recursive(get_possible_moves(position)[i],
                      Dec(depth), ~is_maximizing, acc.value)
             heuristic == r.value
             best_heuristic == acc.value
             examined == acc.examined \cup r.examined
             hcalls == acc.hcalls \cup r.hcalls
         IN  IF is_maximizing /\ heuristic > best_heuristic
             THEN IF heuristic > value_to_beat
                  THEN Seen(heuristic, examined, hcalls)   \* prune
                  ELSE evaluate_children(position, i + 1, depth, is_maximizing,
                           value_to_beat, Seen(heuristic, examined, hcalls))
             ELSE IF ~is_maximizing /\ heuristic < best_heuristic
             THEN IF heuristic < value_to_beat
                  THEN Seen(heuristic, examined, hcalls)   \* prune
                  ELSE evaluate_children(position, i + 1, depth, is_maximizing,
                           value_to_beat, Seen(heuristic, examined, hcalls))
             ELSE evaluate_children(position, i + 1, depth, is_maximizing,
                      value_to_beat, Seen(best_heuristic, examined, hcalls))

\* evaluate_position_recursive testing the depth before the end of the game
evaluate_position_recursive_depth_first(position, depth, is_maximizing, value_to_beat) ==
    IF depth = 0 THEN Seen(hfun[position], {position}, {position})
    ELSE IF is_over(position) THEN Seen(get_winner(position), {position}, {})
    ELSE evaluate_children(position, 1, depth, is_maximizing, value_to_beat,
                           Seen(IF is_maximizing THEN -Inf ELSE Inf, {position}, {}))

evaluate_position_recursive(position, depth, is_maximizing, value_to_beat) ==
    IF is_over(position) THEN Seen(get_winner(position), {position}, {})
    ELSE IF depth = 0 THEN Seen(hfun[position], {position}, {position})
    ELSE evaluate_children(position, 1, depth, is_maximizing, value_to_beat,
                           Seen(IF is_maximizing THEN -Inf ELSE Inf, {position}, {}))

\* what choose_move returns (move, value), or that it raised
Chosen(move, acc) ==
    [raised |-> FALSE, move |-> move, value |-> acc.value,
     examined |-> acc.examined, hcalls |-> acc.hcalls]

RECURSIVE choose_move_loop(_, _, _, _, _, _)

\* the for loop of choose_move from the i-th successor on; acc.value is best_heuristic
choose_move_loop(position, i, depth, is_maximizing, best_move, acc) ==
    IF i > Len(get_possible_moves(position)) THEN Chosen(best_move, acc)
    ELSE LET move == get_possible_moves(position)[i]
             r == evaluate_position_recursive(move, Dec(depth), ~is_maximizing, acc.value)
             heuristic == r.value
             best_heuristic == acc.value
             examined == acc.examined \cup r.examined
             hcalls == acc.hcalls \cup r.hcalls
         IN  IF (is_maximizing /\ heuristic > best_heuristic)
                \/ (~is_maximizing /\ heuristic < best_heuristic)
             THEN choose_move_loop(position, i + 1, depth, is_maximizing, move,
                                   Seen(heuristic, examined, hcalls))
             ELSE choose_move_loop(position, i + 1, depth, is_maximizing, best_move,
                                   Seen(best_heuristic, examined, hcalls))

\* choose_move without its first statement
choose_move_unchecked(position, depth) ==
    choose_move_loop(position, 1, depth, is_player_1_turn(position), None,
                     Seen(IF is_player_1_turn(position) THEN -Inf ELSE Inf, {}, {}))

\* MiniMax(GameClass, heuristic_func, depth).choose_move(position, return_heuristic=True)
choose_move(position, depth) ==
    IF is_over(position)
    THEN [raised |-> TRUE, move |-> None, value |-> 0, examined |-> {}, hcalls |-> {}]
    ELSE choose_move_loop(position, 1, depth, is_player_1_turn(position), None,
                          Seen(IF is_player_1_turn(position) THEN -Inf ELSE Inf, {}, {}))

----------------------------------------------------------------------------
(* Specification of the MiniMax controller: a game and a heuristic         *)
(* function are fixed, then choose_move is called once.                    *)

NoCall == [called |-> FALSE]

NoChoice == [made |-> FALSE]

NoMerge == [stage |-> "idle"]

NoPipe == [host |-> "none"]

\* no search session exists
SearchIdle ==
    /\ variant = "rollout"
    /\ net = <<>>
    /\ batch = 1
    /\ nodes = <<>>
    /\ root = None
    /\ best_node = None
    /\ mode = "idle"
    /\ phase = "idle"
    /\ pc = "idle"
    /\ choice = NoChoice
    /\ mg = NoMerge
    /\ pipe = NoPipe

InitMM ==
    /\ game \in GamesMM
    /\ hfun \in HeuristicsMM(game)
    /\ mm = NoCall
    /\ SearchIdle

\* MiniMax.solver(GameClass).choose_move(position, return_heuristic=True)
SolverCall ==
    /\ mm = NoCall
    /\ \E position \in Positions :
          mm' = [called |-> TRUE, position |-> position, depth |-> Inf,
                 result |-> choose_move(position, Inf)]
    /\ UNCHANGED <<game, hfun, searchvars>>

\* MiniMax(GameClass, heuristic_func, depth).choose_move(position, return_heuristic=True)
DepthCall ==
    /\ mm = NoCall
    /\ \E position \in Positions, depth \in 1..MaxDepth :
          mm' = [called |-> TRUE, position |-> position, depth |-> depth,
                 result |-> choose_move(position, depth)]
    /\ UNCHANGED <<game, hfun, searchvars>>

NextMM == SolverCall \/ DepthCall

SpecMM == InitMM /\ [][NextMM]_vars

----------------------------------------------------------------------------
(* Search nodes (mcts.py: AbstractNode, RolloutNode, HeuristicNode)        *)
(*                                                                         *)
(* nodes maps the identity of every node object to its fields.  A node     *)
(* created in copy t of the tree (t = 0 for a single session) for position *)
(* p has identity t * Stride + p.  children is NoChildren for Python's     *)
(* None and <<kids>> for a list of children.                               *)

Stride == Len(game.moves) + 1

NoChildren == <<>>

HasChildren(n) == n.children # NoChildren

Kids(n) == n.children[1]

\* the identity of the child that node self creates for position q
ChildId(h, self, q) == self - h[self].position + q

\* RolloutNode.__init__ / HeuristicNode.__init__ on top of AbstractNode.__init__;
\* value is what the evaluator returned for the position
NewNode(position, parent) ==
    IF variant = "rollout"
    THEN [position |-> position, parent |-> parent, children |-> NoChildren,
          fully_expanded |-> is_over(position),
          rollout_sum |-> IF is_over(position) THEN get_winner(position) ELSE 0,
          rollout_count |-> IF is_over(position) THEN Inf ELSE 0]
    ELSE [position |-> position, parent |-> parent, children |-> NoChildren,
          fully_expanded |-> is_over(position),
          heuristic |-> IF is_over(position) THEN get_winner(position)
                        ELSE net.value[position],
          expansions |-> IF is_over(position) THEN Inf ELSE 0]

node_is_maximizing(h, self) == is_player_1_turn(h[self].position)

count_expansions(h, self) ==
    IF variant = "rollout" THEN h[self].rollout_count ELSE h[self].expansions

(***************************************************************************)
(* Evaluations are fractions <<numerator, denominator>>.  RolloutNode:     *)
(* rollout_sum / rollout_count while not fully expanded (x / inf is 0),    *)
(* else rollout_sum.  HeuristicNode: heuristic.  The division by a zero    *)
(* rollout_count raises; the callers modelled here never reach it.         *)
(***************************************************************************)
get_evaluation(h, self) ==
    IF variant = "rollout"
    THEN IF h[self].fully_expanded THEN <<h[self].rollout_sum, 1>>
         ELSE IF h[self].rollout_count = Inf THEN <<0, 1>>
         ELSE <<h[self].rollout_sum, h[self].rollout_count>>
    ELSE <<h[self].heuristic, 1>>

FracEq(a, b) == a[1] * b[2] = b[1] * a[2]

FracLess(a, b) == a[1] * b[2] < b[1] * a[2]

\* a + b
FracAdd(a, b) == <<a[1] * b[2] + b[1] * a[2], a[2] * b[2]>>

infplus(a, b) == IF a = Inf \/ b = Inf THEN Inf ELSE a + b

\* the nodes created for the successors of self's position, in the game's order
FreshChildren(h, self) ==
    LET moves == get_possible_moves(h[self].position)
    IN  [i \in 1..Len(moves) |-> ChildId(h, self, moves[i])]

WithChildren(h, self) ==
    LET moves == get_possible_moves(h[self].position)
        kids == FreshChildren(h, self)
        made == [id \in Range(kids) |-> NewNode(id - (self - h[self].position), self)]
    IN  [id \in (DOMAIN h) \cup Range(kids) |->
            IF id = self THEN [h[self] EXCEPT !.children = <<kids>>]
            ELSE IF id \in Range(kids) THEN made[id]
            ELSE h[id]]

\* ensure_children without the test for children that are already there
ensure_children_always_builds(h, self) ==
    IF variant = "rollout" THEN WithChildren(h, self)
    ELSE [WithChildren(h, self) EXCEPT ![self].expansions = 1]

\* ensure_children leaving the expansion count of a HeuristicNode as it was
ensure_children_keeps_count(h, self) ==
    IF HasChildren(h[self]) THEN h ELSE WithChildren(h, self)

\* RolloutNode.ensure_children / HeuristicNode.ensure_children
ensure_children(h, self) ==
    IF HasChildren(h[self]) THEN h
    ELSE IF variant = "rollout" THEN WithChildren(h, self)
    ELSE [WithChildren(h, self) EXCEPT ![self].expansions = 1]

\* RolloutNode.set_fully_expanded / HeuristicNode.set_fully_expanded
set_fully_expanded(h, self, minimax_evaluation) ==
    IF variant = "rollout"
    THEN [h EXCEPT ![self].rollout_sum = minimax_evaluation,
                   ![self].rollout_count = Inf,
                   ![self].fully_expanded = TRUE]
    ELSE [h EXCEPT ![self].heuristic = minimax_evaluation,
                   ![self].expansions = Inf,
                   ![self].fully_expanded = TRUE]

(***************************************************************************)
(* c * sqrt(log(N) / n) for c = sqrt(2), times Scale and rounded down, for *)
(* N, n in 1..16: Exploration[N][n].                                       *)
(***************************************************************************)
Scale == 1000

Exploration ==
    << <<   0,    0,    0,    0,    0,    0,    0,    0,    0,    0,    0,    0,    0,    0,    0,    0>>,
       <<1177,  832,  679,  588,  526,  480,  445,  416,  392,  372,  355,  339,  326,  314,  304,  294>>,
       <<1482, 1048,  855,  741,  662,  605,  560,  524,  494,  468,  446,  427,  411,  396,  382,  370>>,
       <<1665, 1177,  961,  832,  744,  679,  629,  588,  555,  526,  502,  480,  461,  445,  429,  416>>,
       <<1794, 1268, 1035,  897,  802,  732,  678,  634,  598,  567,  540,  517,  497,  479,  463,  448>>,
       <<1893, 1338, 1092,  946,  846,  772,  715,  669,  631,  598,  570,  546,  525,  505,  488,  473>>,
       <<1972, 1394, 1138,  986,  882,  805,  745,  697,  657,  623,  594,  569,  547,  527,  509,  493>>,
       <<2039, 1442, 1177, 1019,  912,  832,  770,  721,  679,  644,  614,  588,  565,  545,  526,  509>>,
       <<2096, 1482, 1210, 1048,  937,  855,  792,  741,  698,  662,  632,  605,  581,  560,  541,  524>>,
       <<2145, 1517, 1238, 1072,  959,  876,  811,  758,  715,  678,  647,  619,  595,  573,  554,  536>>,
       <<2189, 1548, 1264, 1094,  979,  894,  827,  774,  729,  692,  660,  632,  607,  585,  565,  547>>,
       <<2229, 1576, 1287, 1114,  996,  910,  842,  788,  743,  704,  672,  643,  618,  595,  575,  557>>,
       <<2264, 1601, 1307, 1132, 1012,  924,  856,  800,  754,  716,  682,  653,  628,  605,  584,  566>>,
       <<2297, 1624, 1326, 1148, 1027,  937,  868,  812,  765,  726,  692,  663,  637,  614,  593,  574>>,
       <<2327, 1645, 1343, 1163, 1040,  950,  879,  822,  775,  735,  701,  671,  645,  621,  600,  581>>,
       <<2354, 1665, 1359, 1177, 1053,  961,  890,  832,  784,  744,  710,  679,  653,  629,  608,  588>> >>

(***************************************************************************)
(* get_puct_heuristic_for_child(i), times Scale; Inf for np.inf.           *)
(* RolloutNode: c * sqrt(log(rollout_count) / child.rollout_count), or inf *)
(* for an unvisited child.  With an infinite count on an unsolved node     *)
(* (which only a merge produces) log is inf: the term is inf over a finite *)
(* child count, 0 under a finite count over an infinite one, and nan for   *)
(* inf / inf, which is not inf and loses every comparison (NaN).         *)
(* HeuristicNode: c * sqrt(log(expansions) / (child.expansions + 1))       *)
(*                + d * policy[i], with d = 1.                             *)
(***************************************************************************)
NaN == -Inf

\* get_puct_heuristic_for_child with the RolloutNode term written like the
\* HeuristicNode one, over child.rollout_count + 1
get_puct_heuristic_for_child_plus_one(h, self, i) ==
    LET child == Kids(h[self])[i]
    IN  IF variant = "rollout"
        THEN LET N == h[self].rollout_count
                 n == h[child].rollout_count
             IN  IF N = Inf /\ n = Inf THEN NaN
                 ELSE IF N = Inf THEN Inf
                 ELSE IF n = Inf THEN 0
                 ELSE Exploration[N][n + 1]
        ELSE LET N == h[self].expansions
                 n == h[child].expansions
             IN  IF N = Inf /\ n = Inf THEN NaN
                 ELSE IF N = Inf THEN Inf
                 ELSE IF n = Inf THEN net.policy[h[self].position][i]
                 ELSE Exploration[N][n + 1] + net.policy[h[self].position][i]

get_puct_heuristic_for_child(h, self, i) ==
    LET child == Kids(h[self])[i]
    IN  IF variant = "rollout"
        THEN LET N == h[self].rollout_count
                 n == h[child].rollout_count
             IN  IF n = 0 THEN Inf
                 ELSE IF N = Inf /\ n = Inf THEN NaN
                 ELSE IF N = Inf THEN Inf
                 ELSE IF n = Inf THEN 0
                 ELSE Exploration[N][n]
        ELSE LET N == h[self].expansions
                 n == h[child].expansions
             IN  IF N = Inf /\ n = Inf THEN NaN
                 ELSE IF N = Inf THEN Inf
                 ELSE IF n = Inf THEN net.policy[h[self].position][i]
                 ELSE Exploration[N][n + 1] + net.policy[h[self].position][i]

(***************************************************************************)
(* AbstractNode.choose_expansion_node.  The result is the heap as the call *)
(* leaves it, the node it returns (None when there is nothing to expand)   *)
(* and, for the record, the nodes the call was invoked on.                 *)
(***************************************************************************)
Selected(h, node, visited) == [nodes |-> h, node |-> node, visited |-> visited]

\* optimal_value with the mover ignored
optimal_value_always_max(h, self) == 1

optimal_value(h, self) == IF node_is_maximizing(h, self) THEN 1 ELSE -1

\* minimax_of_children with the mover ignored
minimax_of_children_always_max(h, self) ==
    Max({get_evaluation(h, Kids(h[self])[i])[1] : i \in 1..Len(Kids(h[self]))})

\* max / min of the children's evaluations, as the mover at self sees them
minimax_of_children(h, self) ==
    LET values == {get_evaluation(h, Kids(h[self])[i])[1] : i \in 1..Len(Kids(h[self]))}
    IN  IF node_is_maximizing(h, self) THEN Max(values) ELSE Min(values)

RECURSIVE choose_expansion_node(_, _, _)
RECURSIVE scan_children(_, _, _, _, _, _)

\* ask_parent giving up instead of asking the parent to choose again
ask_parent_gives_up(h, self, visited) == Selected(h, None, visited)

\* return self.parent.choose_expansion_node() if self.parent is not None else None
ask_parent(h, self, visited) ==
    IF h[self].parent # None THEN choose_expansion_node(h, h[self].parent, visited)
    ELSE Selected(h, None, visited)

\* the for loop over self.children from the i-th child on, and what follows it
scan_children(h, self, i, best_child, best_heuristic, visited) ==
    IF i > Len(Kids(h[self]))
    THEN IF best_child = None
         THEN ask_parent(set_fully_expanded(h, self, minimax_of_children(h, self)),
                         self, visited)
         ELSE choose_expansion_node(h, best_child, visited)
    ELSE LET child == Kids(h[self])[i]
             puct_heuristic == get_puct_heuristic_for_child(h, self, i)
             evaluation == get_evaluation(h, child)
             combined_heuristic ==
                 IF node_is_maximizing(h, self)
                 THEN FracAdd(evaluation, <<puct_heuristic, Scale>>)
                 ELSE FracAdd(evaluation, <<-puct_heuristic, Scale>>)
             better ==
                 /\ puct_heuristic # NaN
                 /\ \/ best_child = None
                    \/ /\ node_is_maximizing(h, self)
                       /\ FracLess(best_heuristic, combined_heuristic)
                    \/ /\ ~node_is_maximizing(h, self)
                       /\ FracLess(combined_heuristic, best_heuristic)
         IN  IF h[child].fully_expanded
             THEN IF FracEq(evaluation, <<optimal_value(h, self), 1>>)
                  THEN ask_parent(set_fully_expanded(h, self, optimal_value(h, self)),
                                  self, visited)
                  ELSE scan_children(h, self, i + 1, best_child, best_heuristic, visited)
             ELSE IF puct_heuristic = Inf THEN Selected(h, child, visited)
             ELSE IF better
             THEN scan_children(h, self, i + 1, child, combined_heuristic, visited)
             ELSE scan_children(h, self, i + 1, best_child, best_heuristic, visited)

choose_expansion_node(h, self, visited) ==
    IF h[self].fully_expanded THEN Selected(h, None, visited \cup {self})
    ELSE IF count_expansions(h, self) = 0 THEN Selected(h, self, visited \cup {self})
    ELSE scan_children(ensure_children(h, self), self, 1, None, <<0, 1>>,
                       visited \cup {self})

(***************************************************************************)
(* RolloutNode.expand.  A rollout plays uniformly random moves to the end  *)
(* of the game, so its outcome is any outcome reachable from the position; *)
(* rollout_sum is the sum of rollout_batch_size of them.                   *)
(***************************************************************************)
RECURSIVE execute_single_rollout(_)

\* the outcomes execute_single_rollout can return from a state
execute_single_rollout(state) ==
    IF is_over(state) THEN {get_winner(state)}
    ELSE UNION {execute_single_rollout(q) : q \in Range(get_possible_moves(state))}

RECURSIVE BatchSums(_, _)

\* the sums of k rollouts from a state
BatchSums(state, k) ==
    IF k = 0 THEN {0}
    ELSE {a + b : a \in execute_single_rollout(state), b \in BatchSums(state, k - 1)}

RECURSIVE Ancestors(_, _)

\* node and the nodes its parent references lead to
Ancestors(h, node) ==
    IF node = None THEN {} ELSE {node} \cup Ancestors(h, h[node].parent)

\* rollout_expand adding the batch to every node of the tree
rollout_expand_everywhere(h, self, rollout_sum) ==
    [id \in DOMAIN h |->
        [h[id] EXCEPT !.rollout_sum = infplus(@, rollout_sum),
                      !.rollout_count = infplus(@, batch)]]

\* rollout_expand adding the batch to the node alone
rollout_expand_self_only(h, self, rollout_sum) ==
    [h EXCEPT ![self].rollout_sum = infplus(@, rollout_sum),
              ![self].rollout_count = infplus(@, batch)]

\* the while loop of RolloutNode.expand: this node and all its parents
rollout_expand(h, self, rollout_sum) ==
    [id \in DOMAIN h |->
        IF id \in Ancestors(h, self)
        THEN [h[id] EXCEPT !.rollout_sum = infplus(@, rollout_sum),
                           !.rollout_count = infplus(@, batch)]
        ELSE h[id]]

\* Beats comparing as for player 1 whoever moves at the ancestor
Beats_for_player_1(h, node, critical_value) == critical_value > h[node].heuristic

\* the heuristic of an ancestor is replaced while the critical value beats it
Beats(h, node, critical_value) ==
    \/ node_is_maximizing(h, node) /\ critical_value > h[node].heuristic
    \/ ~node_is_maximizing(h, node) /\ critical_value < h[node].heuristic

RECURSIVE climb(_, _, _, _)

\* the two while loops of HeuristicNode.expand from node upward; updating
\* says whether the first loop is still running
climb(h, node, critical_value, updating) ==
    IF node = None THEN h
    ELSE IF updating /\ Beats(h, node, critical_value)
    THEN climb([h EXCEPT ![node].heuristic = critical_value,
                         ![node].expansions = infplus(@, 1)],
               h[node].parent, critical_value, TRUE)
    ELSE climb([h EXCEPT ![node].expansions = infplus(@, 1)],
               h[node].parent, critical_value, FALSE)

\* HeuristicNode.expand(): the heap it leaves, or that it raised
heuristic_expand(h, self) ==
    IF HasChildren(h[self]) THEN [raised |-> TRUE, nodes |-> h]
    ELSE IF h[self].fully_expanded THEN [raised |-> TRUE, nodes |-> h]
    ELSE LET h1 == ensure_children(h, self)
             values == {h1[Kids(h1[self])[i]].heuristic : i \in 1..Len(Kids(h1[self]))}
             critical_value == IF node_is_maximizing(h1, self) THEN Max(values) ELSE Min(values)
             h2 == [h1 EXCEPT ![self].heuristic = critical_value]
         IN  [raised |-> FALSE, nodes |-> climb(h2, h2[self].parent, critical_value, TRUE)]

(***************************************************************************)
(* AbstractNode.depth_to_end_game and AbstractNode.choose_best_node.       *)
(* A weight is [positive, key]: for a fully expanded node the weight is    *)
(* exp(key); otherwise it is key / 2 (the code's weights are (count -      *)
(* optimal_value * sum) / 2 and counts, kept whole here).                  *)
(***************************************************************************)
Failed == -Inf   \* the call raised

\* the children that are solved with the value of self
Preserving(h, self) ==
    {i \in 1..Len(Kids(h[self])) :
        /\ h[Kids(h[self])[i]].fully_expanded
        /\ FracEq(get_evaluation(h, Kids(h[self])[i]), get_evaluation(h, self))}

RECURSIVE depth_to_end_game(_, _)

depth_to_end_game(h, self) ==
    IF ~h[self].fully_expanded THEN Failed
    ELSE IF ~HasChildren(h[self]) THEN 0
    ELSE LET depths == {depth_to_end_game(h, Kids(h[self])[i]) : i \in Preserving(h, self)}
         IN  IF depths = {} \/ Failed \in depths THEN Failed
             ELSE IF FracEq(get_evaluation(h, self), <<optimal_value(h, self), 1>>)
             THEN 1 + Min(depths)
             ELSE 1 + Max(depths)

Zero == [positive |-> FALSE, key |-> 0]

Weight(key) == [positive |-> TRUE, key |-> key]

\* relative_probability weighting every solved child of a solved node
relative_probability_any_solved(h, self, i) ==
    LET child == Kids(h[self])[i]
        optimal == optimal_value(h, self)
    IN  IF h[self].fully_expanded
        THEN IF h[child].fully_expanded
             THEN IF FracEq(get_evaluation(h, self), <<optimal, 1>>)
                  THEN Weight(-depth_to_end_game(h, child))
                  ELSE Weight(depth_to_end_game(h, child))
             ELSE Zero
        ELSE IF ~h[child].fully_expanded
             THEN IF count_expansions(h, child) = 0 THEN Zero
                  ELSE Weight(infplus(count_expansions(h, child), count_expansions(h, child)))
        ELSE IF FracEq(get_evaluation(h, child), <<-optimal, 1>>) THEN Zero
        ELSE LET evaluation == get_evaluation(h, self)
                 doubled == IF count_expansions(h, self) = Inf THEN Inf
                            ELSE (count_expansions(h, self) * (evaluation[2]
                                     - optimal * evaluation[1])) \div evaluation[2]
             IN  IF doubled = 0 THEN Zero ELSE Weight(doubled)

\* relative_probability without the branch for a move that is guaranteed to lose
relative_probability_keeps_losing(h, self, i) ==
    LET child == Kids(h[self])[i]
        optimal == optimal_value(h, self)
    IN  IF h[self].fully_expanded
        THEN IF i \in Preserving(h, self)
             THEN IF FracEq(get_evaluation(h, self), <<optimal, 1>>)
                  THEN Weight(-depth_to_end_game(h, child))
                  ELSE Weight(depth_to_end_game(h, child))
             ELSE Zero
        ELSE IF ~h[child].fully_expanded
             THEN IF count_expansions(h, child) = 0 THEN Zero
                  ELSE Weight(infplus(count_expansions(h, child), count_expansions(h, child)))
        ELSE LET evaluation == get_evaluation(h, self)
                 doubled == IF count_expansions(h, self) = Inf THEN Inf
                            ELSE (count_expansions(h, self) * (evaluation[2]
                                     - optimal * evaluation[1])) \div evaluation[2]
             IN  IF doubled = 0 THEN Zero ELSE Weight(doubled)

\* relative_probability weighting smaller depths more strongly whatever the
\* proven value is
relative_probability_always_hurries(h, self, i) ==
    LET child == Kids(h[self])[i]
        optimal == optimal_value(h, self)
    IN  IF h[self].fully_expanded
        THEN IF i \in Preserving(h, self)
             THEN Weight(-depth_to_end_game(h, child))
             ELSE Zero
        ELSE IF ~h[child].fully_expanded
             THEN IF count_expansions(h, child) = 0 THEN Zero
                  ELSE Weight(infplus(count_expansions(h, child), count_expansions(h, child)))
        ELSE IF FracEq(get_evaluation(h, child), <<-optimal, 1>>) THEN Zero
        ELSE LET evaluation == get_evaluation(h, self)
                 doubled == IF count_expansions(h, self) = Inf THEN Inf
                            ELSE (count_expansions(h, self) * (evaluation[2]
                                     - optimal * evaluation[1])) \div evaluation[2]
             IN  IF doubled = 0 THEN Zero ELSE Weight(doubled)

\* distribution[i] before it is normalised
relative_probability(h, self, i) ==
    LET child == Kids(h[self])[i]
        optimal == optimal_value(h, self)
    IN  IF h[self].fully_expanded
        THEN IF i \in Preserving(h, self)
             THEN IF FracEq(get_evaluation(h, self), <<optimal, 1>>)
                  THEN Weight(-depth_to_end_game(h, child))
                  ELSE Weight(depth_to_end_game(h, child))
             ELSE Zero
        ELSE IF ~h[child].fully_expanded
             THEN IF count_expansions(h, child) = 0 THEN Zero
                  ELSE Weight(infplus(count_expansions(h, child), count_expansions(h, child)))
        ELSE IF FracEq(get_evaluation(h, child), <<-optimal, 1>>) THEN Zero
        ELSE LET evaluation == get_evaluation(h, self)
                 doubled == IF count_expansions(h, self) = Inf THEN Inf
                            ELSE (count_expansions(h, self) * (evaluation[2]
                                     - optimal * evaluation[1])) \div evaluation[2]
             IN  IF doubled = 0 THEN Zero ELSE Weight(doubled)

\* np.argmax: the first index with the largest weight (index 1 when the
\* weights sum to zero: the distribution is then all nan)
ArgMax(distribution) ==
    LET idx == 1..Len(distribution)
        positive == {i \in idx : distribution[i].positive}
        best == {i \in positive : \A j \in positive : distribution[j].key <= distribution[i].key}
    IN  IF positive = {} THEN 1 ELSE Min(best)

\* choose_best_node(optimal=...): the weights and the indices of the children
\* it can return; it raises when children is None, when a depth cannot be
\* computed, and in np.random.choice when the weights do not sum to a
\* positive number
choose_best_node(h, self, optimal) ==
    IF ~HasChildren(h[self])
    THEN [raised |-> TRUE, distribution |-> <<>>, returns |-> {}]
    ELSE LET distribution == [i \in 1..Len(Kids(h[self])) |-> relative_probability(h, self, i)]
             positive == {i \in 1..Len(distribution) : distribution[i].positive}
             broken == \E i \in positive : distribution[i].key \in {Failed, -Failed}
         IN  IF broken \/ (~optimal /\ positive = {})
             THEN [raised |-> TRUE, distribution |-> distribution, returns |-> {}]
             ELSE [raised |-> FALSE, distribution |-> distribution,
                   returns |-> IF optimal THEN {ArgMax(distribution)} ELSE positive]

----------------------------------------------------------------------------
(* The search drivers (mcts.py: MCTS.choose_move, AsyncMCTS.loop_func,     *)
(* AsyncMCTSRoot.worker_loop_func): select, expand, re-root.               *)

ShapeWide == << <<2, 3>>, <<4, 5>>, <<6, 7>>, <<>>, <<>>, <<>>, <<>> >>

DepthWide == <<0, 1, 1, 2, 2, 2, 2>>

\* player 1 opens; the positions where player 2 moves first are reached by
\* re-rooting
SearchTurns == { <<TRUE, FALSE, TRUE, FALSE>>, <<TRUE, TRUE, FALSE, FALSE>> }

\* a chain of positions with a way out of the game at every level
ShapeMid == << <<2, 3>>, <<4, 5>>, <<>>, <<6, 7>>, <<>>, <<>>, <<>> >>

DepthMid == <<0, 1, 1, 2, 2, 3, 3>>

GamesSearch == GamesOf(ShapeWide, DepthWide, SearchTurns)
                  \cup GamesOf(ShapeMid, DepthMid, SearchTurns)

\* evaluator outputs tried
NetValues == {-1, 1}

MaxBatch == 1     \* largest rollout_batch_size tried

\* prior vectors over two successors, times Scale
Priors == { <<500, 500>>, <<300, 700>> }

\* the evaluators tried on game g: a value in [-1, 1] for every position that
\* is not the starting position and where the game is not over, and one
\* prior vector used at every position
NetsFor(g) ==
    LET inner == {p \in 2..Len(g.moves) : g.moves[p] # <<>>}
    IN  { [value  |-> [p \in 1..Len(g.moves) |-> IF p \in inner THEN f[p] ELSE 0],
           policy |-> [p \in 1..Len(g.moves) |-> prior]] :
             f \in [inner -> NetValues], prior \in Priors }

MMIdle ==
    /\ hfun = <<>>
    /\ mm = NoCall

\* MCTS.choose_move and AsyncMCTS.loop_func up to their loops: the root node
\* of the session.  MCTS.choose_move searches at once for the mover at the
\* position; AsyncMCTS.loop_func first ponders until the opponent has moved.
Init ==
    /\ game \in GamesSearch
    /\ MMIdle
    /\ variant \in {"rollout", "heuristic"}
    /\ net \in IF variant = "heuristic" THEN NetsFor(game) ELSE {<<>>}
    /\ batch \in IF variant = "rollout" THEN 1..MaxBatch ELSE {1}
    /\ nodes = [id \in {1} |-> NewNode(1, None)]
    /\ root = 1
    /\ best_node = None
    /\ mode \in {"sync", "async"}
    /\ phase = IF mode = "sync" THEN "think" ELSE "ponder"
    /\ pc = "select"
    /\ choice = NoChoice
    /\ mg = NoMerge
    /\ pipe = NoPipe

\* best_node = root.choose_expansion_node()
Select ==
    /\ pc = "select"
    /\ \E r \in {choose_expansion_node(nodes, root, {})} :
           /\ nodes' = r.nodes
           /\ best_node' = r.node
           /\ pc' = IF r.node = None THEN "solved" ELSE "expand"
    /\ choice' = NoChoice
    /\ UNCHANGED <<game, mmvars, mg, pipe, variant, net, batch, root, mode, phase>>

\* best_node.expand(), rollout variant
ExpandRollout ==
    /\ pc = "expand"
    /\ variant = "rollout"
    /\ \E rollout_sum \in BatchSums(nodes[best_node].position, batch) :
          nodes' = rollout_expand(nodes, best_node, rollout_sum)
    /\ pc' = "select"
    /\ UNCHANGED <<game, mmvars, mg, pipe, variant, net, batch, root, best_node, mode, phase, choice>>

\* best_node.expand(), heuristic variant
ExpandHeuristic ==
    /\ pc = "expand"
    /\ variant = "heuristic"
    /\ \E r \in {heuristic_expand(nodes, best_node)} :
           /\ nodes' = r.nodes
           /\ pc' = IF r.raised THEN "raised" ELSE "select"
    /\ UNCHANGED <<game, mmvars, mg, pipe, variant, net, batch, root, best_node, mode, phase, choice>>

\* UserMove without root.parent = None
UserMove_keeps_parent ==
    /\ phase = "ponder"
    /\ pc \in {"select", "solved"}
    /\ HasChildren(nodes[root])
    /\ \E i \in 1..Len(Kids(nodes[root])) :
          LET child == Kids(nodes[root])[i]
          IN  /\ root' = child
              /\ nodes' = nodes
              /\ IF is_over(nodes[child].position)
                 THEN phase' = "over" /\ pc' = "over"
                 ELSE phase' = "think" /\ pc' = "select"
    /\ best_node' = None
    /\ choice' = NoChoice
    /\ UNCHANGED <<game, mmvars, mg, pipe, variant, net, batch, mode>>

\* the opponent's move arrives between two iterations of the pondering loop
\* and is the position of the i-th child: root = child, root.parent = None
UserMove ==
    /\ phase = "ponder"
    /\ pc \in {"select", "solved"}
    /\ HasChildren(nodes[root])
    /\ \E i \in 1..Len(Kids(nodes[root])) :
          LET child == Kids(nodes[root])[i]
          IN  /\ root' = child
              /\ nodes' = [nodes EXCEPT ![child].parent = None]
              /\ IF is_over(nodes[child].position)
                 THEN phase' = "over" /\ pc' = "over"
                 ELSE phase' = "think" /\ pc' = "select"
    /\ best_node' = None
    /\ choice' = NoChoice
    /\ UNCHANGED <<game, mmvars, mg, pipe, variant, net, batch, mode>>

\* the time budget is over, or the tree is fully expanded:
\* root = root.choose_best_node(optimal), root.parent = None (MCTS.choose_move
\* returns the child's position instead).  AsyncMCTS and MCTS pass
\* optimal=True, AsyncMCTSRoot.manager_loop_func the default False.
EngineMove ==
    /\ phase = "think"
    /\ pc \in {"select", "solved"}
    /\ \E optimal \in BOOLEAN :
          \E r \in {choose_best_node(nodes, root, optimal)} :
              IF r.raised
              THEN /\ choice' = [made |-> TRUE, node |-> root, raised |-> TRUE, index |-> 0]
                   /\ pc' = "raised"
                   /\ UNCHANGED <<nodes, root, phase>>
              ELSE \E i \in r.returns :
                      LET child == Kids(nodes[root])[i]
                      IN  /\ choice' = [made |-> TRUE, node |-> root, raised |-> FALSE,
                                        index |-> i]
                          /\ IF mode = "sync"
                             THEN /\ phase' = "returned" /\ pc' = "returned"
                                  /\ UNCHANGED <<nodes, root>>
                             ELSE /\ root' = child
                                  /\ nodes' = [nodes EXCEPT ![child].parent = None]
                                  /\ IF is_over(nodes[child].position)
                                     THEN phase' = "over" /\ pc' = "over"
                                     ELSE phase' = "ponder" /\ pc' = "select"
    /\ best_node' = None
    /\ UNCHANGED <<game, mmvars, mg, pipe, variant, net, batch, mode>>

Next == Select \/ ExpandRollout \/ ExpandHeuristic \/ UserMove \/ EngineMove

Spec == Init /\ [][Next]_vars

----------------------------------------------------------------------------
(* Root parallelization (mcts.py: AsyncMCTSRoot): the manager sends its    *)
(* root to the worker processes, every worker searches its own copy, and   *)
(* the manager merges the copies into its root (RolloutNode.merge,         *)
(* HeuristicNode.merge, AbstractNode.merge_children_clones).  A copy lives *)
(* at the identities of the original shifted by a multiple of Stride.      *)

\* a - b for a finite b
infminus(a, b) == IF a = Inf THEN Inf ELSE a - b

RECURSIVE SeqSum(_)

\* sum(list)
SeqSum(seq) == IF seq = <<>> THEN 0 ELSE infplus(Head(seq), SeqSum(Tail(seq)))

\* what a merge leaves: the heap, and whether the call raised
Merged(h, raised) == [nodes |-> h, raised |-> raised]

\* [clone for clone in clones if clone.rollout_count > self.rollout_count]
counting_more(h, self, clones) ==
    SelectSeq(clones, LAMBDA clone : h[clone].rollout_count > h[self].rollout_count)

\* RolloutNode.merge, first statement
merge_rollout_count(h, self, clones) ==
    LET more == counting_more(h, self, clones)
        gained == SeqSum([k \in 1..Len(more) |->
                             infminus(h[more[k]].rollout_count, h[self].rollout_count)])
    IN  [h EXCEPT ![self].rollout_count = infplus(@, gained)]

\* RolloutNode.merge, second statement: the filter reads the count the first
\* statement has just stored
merge_rollout_sum(h, self, clones) ==
    LET more == counting_more(h, self, clones)
        gained == SeqSum([k \in 1..Len(more) |->
                             h[more[k]].rollout_sum - h[self].rollout_sum])
    IN  [h EXCEPT ![self].rollout_sum = @ + gained]

\* the heuristic of self re-derived from its children
merge_heuristic(h, self) ==
    LET values == {h[Kids(h[self])[i]].heuristic : i \in 1..Len(Kids(h[self]))}
        counts == [i \in 1..Len(Kids(h[self])) |-> h[Kids(h[self])[i]].expansions]
    IN  [h EXCEPT ![self].heuristic = IF node_is_maximizing(h, self) THEN Max(values)
                                      ELSE Min(values),
                  ![self].expansions = infplus(1, SeqSum(counts))]

RECURSIVE merge(_, _, _)
RECURSIVE merge_children_clones(_, _, _)
RECURSIVE merge_each_child(_, _, _, _)

\* the loop of merge_children_clones over self.children from the i-th on
merge_each_child(h, self, clones, i) ==
    IF i > Len(Kids(h[self])) THEN Merged(h, FALSE)
    ELSE LET having == SelectSeq(clones, LAMBDA clone : HasChildren(h[clone]))
             r == merge(h, Kids(h[self])[i],
                        [k \in 1..Len(having) |-> Kids(h[having[k]])[i]])
         IN  IF r.raised THEN r ELSE merge_each_child(r.nodes, self, clones, i + 1)

\* AbstractNode.merge_children_clones: a node without children takes over the
\* children of the first clone that has some (the same objects), and only
\* the clones after that one are merged into them
merge_children_clones(h, self, clones) ==
    IF ~HasChildren(h[self])
    THEN LET having == {i \in 1..Len(clones) : HasChildren(h[clones[i]])}
         IN  IF having = {} THEN Merged(h, FALSE)
             ELSE merge_each_child(
                      [h EXCEPT ![self].children = h[clones[Min(having)]].children],
                      self, SubSeq(clones, Min(having) + 1, Len(clones)), 1)
    ELSE merge_each_child(h, self, clones, 1)

\* RolloutNode.merge / HeuristicNode.merge; iterating over self.children
\* raises when it is None
merge(h, self, clones) ==
    IF variant = "rollout"
    THEN merge_children_clones(
             merge_rollout_sum(merge_rollout_count(h, self, clones), self, clones),
             self, clones)
    ELSE LET r == merge_children_clones(h, self, clones)
         IN  IF r.raised THEN r
             ELSE IF ~HasChildren(r.nodes[self]) THEN Merged(r.nodes, TRUE)
             ELSE Merged(merge_heuristic(r.nodes, self), FALSE)

Threads == 2      \* worker processes

MaxGrow == 2      \* expansions of the tree before it is sent to the workers

MaxWork == 2      \* expansions a worker adds to its copy

\* the games the merges are tried on: every game ends with a winner
GamesMerge ==
    { MakeGame(ShapeMid, DepthMid, lv, <<TRUE, FALSE, TRUE, FALSE>>) :
          lv \in [Leaves(ShapeMid) -> {-1, 1}] }
      \cup { MakeGame(ShapeWide, DepthWide, lv, <<TRUE, FALSE, TRUE, FALSE>>) :
                lv \in [Leaves(ShapeWide) -> {-1, 1}] }

\* the root of the t-th copy
CloneRoot(t) == t * Stride + 1

\* worker_pipe.send(root): the tree below the manager's root, copied for
\* every worker
Copies(h) ==
    LET shift(id, t) == IF id = None THEN None ELSE id + t * Stride
        copy(n, t) == [n EXCEPT !.parent = shift(@, t),
                                !.children = IF n.children = NoChildren THEN NoChildren
                                             ELSE <<[i \in 1..Len(n.children[1]) |->
                                                       shift(n.children[1][i], t)]>>]
        ids == {shift(id, t) : id \in DOMAIN h, t \in 0..Threads}
    IN  [id \in ids |-> copy(h[((id - 1) % Stride) + 1], (id - 1) \div Stride)]

InitMerge ==
    /\ game \in GamesMerge
    /\ MMIdle
    /\ variant \in {"rollout", "heuristic"}
    /\ net \in IF variant = "heuristic" THEN NetsFor(game) ELSE {<<>>}
    /\ batch = 1
    /\ nodes = [id \in {1} |-> NewNode(1, None)]
    /\ root = 1
    /\ best_node = None
    /\ mode = "root"
    /\ phase = "ponder"
    /\ pc = "select"
    /\ choice = NoChoice
    /\ mg = [stage |-> "grow", turn |-> 0, clones |-> <<>>, sent |-> <<>>,
             raised |-> <<>>, before |-> <<>>]
    /\ pipe = NoPipe

\* the expansions the running search may still add to its tree
Budget ==
    IF mg.stage = "grow" THEN MaxGrow
    ELSE IF mg.stage = "work" THEN infplus(count_expansions(mg.sent, 1), MaxWork)
    ELSE 0

\* an iteration of the search loop: root.choose_expansion_node()
SearchSelect ==
    /\ mg.stage \in {"grow", "work"}
    /\ count_expansions(nodes, root) < Budget
    /\ Select

\* ... and best_node.expand()
SearchExpandRollout ==
    /\ mg.stage \in {"grow", "work"}
    /\ ExpandRollout

SearchExpandHeuristic ==
    /\ mg.stage \in {"grow", "work"}
    /\ ExpandHeuristic

\* the manager sends its root to the workers; the first worker starts
Send ==
    /\ mg.stage = "grow"
    /\ pc \in {"select", "solved"}
    /\ nodes' = Copies(nodes)
    /\ mg' = [mg EXCEPT !.stage = "work", !.turn = 1,
                        !.clones = [t \in 1..Threads |-> CloneRoot(t)],
                        !.sent = nodes]
    /\ root' = CloneRoot(1)
    /\ best_node' = None
    /\ pc' = "select"
    /\ UNCHANGED <<game, mmvars, pipe, variant, net, batch, mode, phase, choice>>

\* a worker is polled and stops; the workers run independently, so the next
\* one is followed from its start
NextWorker ==
    /\ mg.stage = "work"
    /\ mg.turn < Threads
    /\ pc \in {"select", "solved"}
    /\ mg' = [mg EXCEPT !.turn = @ + 1]
    /\ root' = CloneRoot(mg.turn + 1)
    /\ best_node' = None
    /\ pc' = "select"
    /\ UNCHANGED <<game, mmvars, pipe, variant, net, batch, nodes, mode, phase, choice>>

\* clones = [worker_pipe.recv() for worker_pipe in worker_pipes]
\* root.merge(clones)
Merge ==
    /\ mg.stage = "work"
    /\ mg.turn = Threads
    /\ pc \in {"select", "solved"}
    /\ \E r \in {merge(nodes, 1, mg.clones)} :
          /\ nodes' = r.nodes
          /\ mg' = [mg EXCEPT !.stage = "merged", !.raised = Append(@, r.raised),
                              !.before = nodes]
    /\ root' = 1
    /\ best_node' = None
    /\ pc' = "merged"
    /\ UNCHANGED <<game, mmvars, pipe, variant, net, batch, mode, phase, choice>>

\* root.merge(clones) once more with the same clones
MergeAgain ==
    /\ mg.stage = "merged"
    /\ \E r \in {merge(nodes, 1, mg.clones)} :
          /\ nodes' = r.nodes
          /\ mg' = [mg EXCEPT !.stage = "again", !.raised = Append(@, r.raised),
                              !.before = nodes]
    /\ pc' = "again"
    /\ UNCHANGED <<game, mmvars, pipe, variant, net, batch, root, best_node, mode, phase, choice>>

NextMerge ==
    \/ SearchSelect
    \/ SearchExpandRollout
    \/ SearchExpandHeuristic
    \/ Send
    \/ NextWorker
    \/ Merge
    \/ MergeAgain

SpecMerge == InitMerge /\ [][NextMerge]_vars

----------------------------------------------------------------------------
(* Reference searches the MiniMax claims compare the controller with.      *)

RECURSIVE minimax_value(_)

\* brute-force minimax over the full game tree: the side to move at each
\* position is the one the game says
minimax_value(p) ==
    IF is_over(p) THEN get_winner(p)
    ELSE LET values == {minimax_value(q) : q \in Range(get_possible_moves(p))}
         IN  IF is_player_1_turn(p) THEN Max(values) ELSE Min(values)

RECURSIVE unpruned_value(_, _, _)

\* depth-bounded minimax that visits every successor (no value_to_beat)
unpruned_value(position, depth, is_maximizing) ==
    IF is_over(position) THEN get_winner(position)
    ELSE IF depth = 0 THEN hfun[position]
    ELSE LET values == {unpruned_value(q, Dec(depth), ~is_maximizing) :
                            q \in Range(get_possible_moves(position))}
         IN  IF is_maximizing THEN Max(values) ELSE Min(values)

\* the unpruned search's move: the first successor (in the game's order)
\* whose unpruned value is the best one
unpruned_choice(position, depth) ==
    LET moves == get_possible_moves(position)
        is_maximizing == is_player_1_turn(position)
        value(i) == unpruned_value(moves[i], Dec(depth), ~is_maximizing)
        all == {value(i) : i \in 1..Len(moves)}
        best == IF is_maximizing THEN Max(all) ELSE Min(all)
        first == Min({i \in 1..Len(moves) : value(i) = best})
    IN  [move |-> moves[first], value |-> best]

RECURSIVE Below(_, _)

\* the positions at most depth plies below position (position excluded)
Below(position, depth) ==
    IF depth = 0 \/ is_over(position) THEN {}
    ELSE UNION { {q} \cup Below(q, Dec(depth)) : q \in Range(get_possible_moves(position)) }

Answered == mm.called /\ ~mm.result.raised

----------------------------------------------------------------------------
(* Claims                                                                  *)

\* C1: for any finite game and non-terminal position p, the solver
\* (depth = infinity, no heuristic) reports a value in {-1, 0, +1} equal to
\* the brute-force minimax value of p, maximizing where player 1 is to move
\* and minimizing otherwise.
C1_SolverEqualsBruteForce ==
    (Answered /\ mm.depth = Inf) =>
        /\ mm.result.value \in Outcomes
        /\ mm.result.value = minimax_value(mm.position)

\* C2: for every depth d >= 1, heuristic function and non-terminal position,
\* choose_move with pruning returns the same move and the same value as the
\* search of the same depth that never prunes (same successor order, ties
\* resolved to the first best successor).
C2_PruningEqualsUnpruned ==
    Answered =>
        /\ mm.result.move = unpruned_choice(mm.position, mm.depth).move
        /\ mm.result.value = unpruned_choice(mm.position, mm.depth).value

\* C2 witness: a depth-bounded call in which a cut really skipped positions
\* and the heuristic function was consulted
C2_Witness ==
    /\ Answered
    /\ mm.depth # Inf
    /\ mm.result.hcalls # {}
    /\ mm.result.examined # Below(mm.position, mm.depth)
    /\ mm.result.move = unpruned_choice(mm.position, mm.depth).move

----------------------------------------------------------------------------
(* Properties of the search tree under the drivers.                        *)

NodeIds == DOMAIN nodes

RECURSIVE Subtree(_, _)

\* the nodes reachable from a node through children references
Subtree(h, id) ==
    IF ~HasChildren(h[id]) THEN {id}
    ELSE {id} \cup UNION {Subtree(h, Kids(h[id])[i]) : i \in 1..Len(Kids(h[id]))}

Solved(h, id) == h[id].fully_expanded

AllChildrenSolved(h, id) ==
    /\ HasChildren(h[id])
    /\ \A i \in 1..Len(Kids(h[id])) : Solved(h, Kids(h[id])[i])

\* the best of the children's values for the player the game says is to move
BestOfChildren(h, id) ==
    LET values == {get_evaluation(h, Kids(h[id])[i])[1] : i \in 1..Len(Kids(h[id]))}
    IN  IF is_player_1_turn(h[id].position) THEN Max(values) ELSE Min(values)

\* the outcome the player to move at the node prefers
MoverWin(h, id) == IF is_player_1_turn(h[id].position) THEN 1 ELSE -1

\* C3: a node that is fully expanded stays fully expanded and keeps the value
\* get_evaluation returns, whatever selection, expansion or re-rooting step
\* the driver takes next.
C3_SolvedIsStable ==
    [][\A id \in NodeIds :
          Solved(nodes, id) =>
              /\ id \in DOMAIN nodes'
              /\ Solved(nodes', id)
              /\ get_evaluation(nodes', id) = get_evaluation(nodes, id)]_vars

\* C3 witness: an expansion has just been carried out in a tree that holds a
\* solved node with children.
C3_Witness ==
    /\ pc = "select"
    /\ best_node # None
    /\ \E id \in Subtree(nodes, root) :
          Solved(nodes, id) /\ HasChildren(nodes[id]) /\ id # best_node

\* C4: every fully expanded node evaluates to the exact minimax value of its
\* position, a value in {-1, 0, 1}; this includes the nodes closed because
\* one solved child already has the outcome the mover prefers.
C4_SolvedIsMinimax ==
    \A id \in NodeIds :
        Solved(nodes, id) =>
            /\ get_evaluation(nodes, id)[2] = 1
            /\ get_evaluation(nodes, id)[1] \in Outcomes
            /\ get_evaluation(nodes, id)[1] = minimax_value(nodes[id].position)

\* C4 witness: a node closed early, one of its children is still unsolved.
C4_Witness ==
    \E id \in NodeIds :
        /\ Solved(nodes, id)
        /\ HasChildren(nodes[id])
        /\ \E i \in 1..Len(Kids(nodes[id])) : ~Solved(nodes, Kids(nodes[id])[i])

MaxCalls == 3     \* further selection calls tried on a solved root

RECURSIVE further_calls(_, _)

\* the tree after k more calls of root.choose_expansion_node()
further_calls(h, k) ==
    IF k = 0 THEN h
    ELSE further_calls(choose_expansion_node(h, root, {}).nodes, k - 1)

SelectionStep == pc = "select" /\ pc' \in {"solved", "expand"}

BestNodeCalled == choice.made /\ HasChildren(nodes[choice.node])

\* the child does not keep the proven outcome of the node
Deviates(h, self, i) ==
    LET child == Kids(h[self])[i]
    IN  \/ ~Solved(h, child)
        \/ ~FracEq(get_evaluation(h, child), get_evaluation(h, self))

\* the child is solved with the worst outcome for the mover at the node
Losing(h, self, i) ==
    LET child == Kids(h[self])[i]
    IN  /\ Solved(h, child)
        /\ get_evaluation(h, child) = <<-MoverWin(h, self), 1>>

ChildIndices(h, self) == 1..Len(Kids(h[self]))

\* C9: at a fully expanded root choose_best_node gives weight zero to every
\* child that is not fully expanded or whose value differs from the root's,
\* some child has positive weight, and neither the optimal nor the stochastic
\* choice returns a child that changes the proven outcome (a maximizing root
\* proven +1 returns only children proven +1).
C9_SolvedRootKeepsOutcome ==
    (BestNodeCalled /\ Solved(nodes, choice.node)) =>
        LET self == choice.node
        IN  /\ \A i \in ChildIndices(nodes, self) :
                  Deviates(nodes, self, i) => ~relative_probability(nodes, self, i).positive
            /\ \E i \in ChildIndices(nodes, self) :
                  relative_probability(nodes, self, i).positive
            /\ ~choice.raised
            /\ ~Deviates(nodes, self, choice.index)
            /\ \A optimal \in BOOLEAN :
                  /\ ~choose_best_node(nodes, self, optimal).raised
                  /\ \A i \in choose_best_node(nodes, self, optimal).returns :
                        ~Deviates(nodes, self, i)
            /\ (is_player_1_turn(nodes[self].position) /\ get_evaluation(nodes, self) = <<1, 1>>)
                  => get_evaluation(nodes, Kids(nodes[self])[choice.index]) = <<1, 1>>

\* C9 witness: a maximizing root proven +1 with a child that is not proven
\* +1, and a move was chosen.
C9_Witness ==
    /\ BestNodeCalled
    /\ Solved(nodes, choice.node)
    /\ is_player_1_turn(nodes[choice.node].position)
    /\ get_evaluation(nodes, choice.node) = <<1, 1>>
    /\ \E i \in ChildIndices(nodes, choice.node) : Deviates(nodes, choice.node, i)
    /\ ~choice.raised

\* C10: at a root that is not fully expanded choose_best_node gives weight
\* zero to every child solved with the worst outcome for the mover, and when
\* some child has positive weight neither the optimal nor the stochastic
\* choice returns such a child.
C10_UnsolvedRootAvoidsLoss ==
    (BestNodeCalled /\ ~Solved(nodes, choice.node)) =>
        LET self == choice.node
            some_positive == \E j \in ChildIndices(nodes, self) :
                                 relative_probability(nodes, self, j).positive
        IN  /\ \A i \in ChildIndices(nodes, self) :
                  Losing(nodes, self, i) => ~relative_probability(nodes, self, i).positive
            /\ some_positive =>
                  /\ ~choice.raised
                  /\ ~Losing(nodes, self, choice.index)
                  /\ \A optimal \in BOOLEAN :
                        \A i \in choose_best_node(nodes, self, optimal).returns :
                            ~Losing(nodes, self, i)

\* C10 witness: an unsolved root with a losing child and a child of positive
\* weight, and a move was chosen.
C10_Witness ==
    /\ BestNodeCalled
    /\ ~Solved(nodes, choice.node)
    /\ ~choice.raised
    /\ \E i \in ChildIndices(nodes, choice.node) : Losing(nodes, choice.node, i)
    /\ \E j \in ChildIndices(nodes, choice.node) :
          relative_probability(nodes, choice.node, j).positive

----------------------------------------------------------------------------
(* Properties of the merges.                                               *)

\* the node of the t-th clone as the merge received it
CloneSent(t) == mg.before[CloneRoot(t)]

\* C6: a rollout merge is additive over the baseline the clones share:
\* count = baseline count + the sum of the clones' excess counts, and
\* sum = baseline sum + the sum of the clones' excess sums (for a baseline
\* of count 10, sum 3 and clones of (15, 5) and (20, 6): count 25, sum 8).
C6_RolloutMergeAdditive ==
    (/\ mg.stage = "merged"
     /\ variant = "rollout"
     /\ \A t \in 1..Threads : CloneSent(t).rollout_count # Inf) =>
        /\ nodes[1].rollout_count =
              mg.sent[1].rollout_count
                + SeqSum([t \in 1..Threads |->
                             CloneSent(t).rollout_count - mg.sent[1].rollout_count])
        /\ nodes[1].rollout_sum =
              mg.sent[1].rollout_sum
                + SeqSum([t \in 1..Threads |->
                             CloneSent(t).rollout_sum - mg.sent[1].rollout_sum])

\* C7: merging the same clones a second time completes, for either variant,
\* and leaves get_evaluation and count_expansions of the node and of every
\* node below it as the first merge left them.
C7_MergeIdempotent ==
    mg.stage = "again" =>
        /\ mg.raised = <<FALSE, FALSE>>
        /\ \A id \in Subtree(nodes, 1) :
              /\ id \in DOMAIN mg.before
              /\ get_evaluation(nodes, id) = get_evaluation(mg.before, id)
              /\ count_expansions(nodes, id) = count_expansions(mg.before, id)

\* C8: HeuristicNode.merge completes, and afterwards every node with
\* children has the min/max of its children's values as value and 1 + the
\* sum of its children's expansion counts as expansion count.
C8_HeuristicMergeCompletes ==
    (mg.stage = "merged" /\ variant = "heuristic") =>
        /\ mg.raised = <<FALSE>>
        /\ \A id \in Subtree(nodes, 1) :
              HasChildren(nodes[id]) =>
                  /\ nodes[id].heuristic = BestOfChildren(nodes, id)
                  /\ nodes[id].expansions =
                        infplus(1, SeqSum([i \in 1..Len(Kids(nodes[id])) |->
                                              nodes[Kids(nodes[id])[i]].expansions]))

----------------------------------------------------------------------------
(* Properties of the best-move policy and of the drivers' protocol.        *)

RECURSIVE ProvenDepth(_, _)

\* the number of moves to the end of the game along solved descendants whose
\* value equals their parent's: the shortest such line where the mover has
\* won, the longest where the mover draws or loses
ProvenDepth(h, id) ==
    IF ~HasChildren(h[id]) THEN 0
    ELSE LET keep == {i \in ChildIndices(h, id) : ~Deviates(h, id, i)}
             depths == {ProvenDepth(h, Kids(h[id])[i]) : i \in keep}
         IN  IF get_evaluation(h, id) = <<MoverWin(h, id), 1>>
             THEN 1 + Min(depths)
             ELSE 1 + Max(depths)

\* the children that keep the proven value of the node
Keeping(h, self) == {i \in ChildIndices(h, self) : ~Deviates(h, self, i)}

\* C11: at a fully expanded root the optimal choice is a child that keeps
\* the root's proven value, with the smallest depth to the end of the game
\* among them when the mover has won and the largest when the mover draws or
\* loses; the depth is counted over solved descendants whose value equals
\* their parent's.
C11_OptimalPrefersDepth ==
    (BestNodeCalled /\ Solved(nodes, choice.node)) =>
        LET self == choice.node
            won == get_evaluation(nodes, self) = <<MoverWin(nodes, self), 1>>
            depth(i) == ProvenDepth(nodes, Kids(nodes[self])[i])
            returns == choose_best_node(nodes, self, TRUE).returns
        IN  /\ Cardinality(returns) = 1
            /\ \A i \in returns :
                  /\ i \in Keeping(nodes, self)
                  /\ depth_to_end_game(nodes, Kids(nodes[self])[i]) = depth(i)
                  /\ \A j \in Keeping(nodes, self) :
                        IF won THEN depth(i) <= depth(j) ELSE depth(i) >= depth(j)

\* C11 witness: a move was chosen at a solved root that the mover does not
\* win, and two children keeping its value end the game at different depths.
C11_Witness ==
    /\ BestNodeCalled
    /\ Solved(nodes, choice.node)
    /\ ~choice.raised
    /\ get_evaluation(nodes, choice.node) # <<MoverWin(nodes, choice.node), 1>>
    /\ \E i, j \in Keeping(nodes, choice.node) :
          ProvenDepth(nodes, Kids(nodes[choice.node])[i])
              # ProvenDepth(nodes, Kids(nodes[choice.node])[j])

----------------------------------------------------------------------------
(* The pondering session (mcts.py: AsyncMCTS): the host calls choose_move, *)
(* which sends the opponent's position down the Pipe and waits for the     *)
(* engine's position; the engine runs loop_func in its own process.        *)

\* the games the sessions are played on
GamesSession ==
    { MakeGame(ShapeMid, DepthMid, lv, <<TRUE, FALSE, TRUE, FALSE>>) :
          lv \in [Leaves(ShapeMid) -> {-1, 1}] }

\* for child in root.children: if np.all(child.position == user_chosen_position)
\* the child the loop stops at; answers no child when the for loop runs into
\* its else branch
matching_child_or_first(h, self, user_chosen_position) ==
    LET found == {i \in 1..Len(Kids(h[self])) :
                     h[Kids(h[self])[i]].position = user_chosen_position}
    IN  IF found = {} THEN {1} ELSE {Min(found)}

matching_child(h, self, user_chosen_position) ==
    LET found == {i \in 1..Len(Kids(h[self])) :
                     h[Kids(h[self])[i]].position = user_chosen_position}
    IN  IF found = {} THEN {} ELSE {Min(found)}

\* root = child: the node the loop goes on with
new_root_stays(self, child) == self

new_root(self, child) == child

InitSession ==
    /\ game \in GamesSession
    /\ MMIdle
    /\ variant \in {"rollout", "heuristic"}
    /\ net \in IF variant = "heuristic" THEN NetsFor(game) ELSE {<<>>}
    /\ batch = 1
    /\ nodes = [id \in {1} |-> NewNode(1, None)]
    /\ root = 1
    /\ best_node = None
    /\ mode = "async"
    /\ phase = "ponder"
    /\ pc = "select"
    /\ choice = NoChoice
    /\ mg = NoMerge
    /\ pipe = [host |-> "idle", position |-> 1, to_worker |-> <<>>, to_parent |-> <<>>,
               requests |-> <<>>, replies |-> <<>>]

\* the pondering loop is at  if root.children is not None and worker_pipe.poll()
\* with a message waiting, after an iteration of its own
Polls ==
    /\ phase = "ponder"
    /\ pc \in {"select", "solved"}
    /\ choice = NoChoice
    /\ HasChildren(nodes[root])
    /\ pipe.to_worker # <<>>

\* best_node = root.choose_expansion_node() in either loop of loop_func
LoopSelect ==
    /\ phase \in {"ponder", "think"}
    /\ ~Polls
    /\ Select

\* AsyncMCTS.choose_move: self.parent_pipe.send(user_chosen_position).  The
\* host may report any position, a successor of its own or not.
HostSend ==
    /\ pipe.host = "idle"
    /\ ~is_over(pipe.position)
    /\ \E user_chosen_position \in Positions :
          pipe' = [pipe EXCEPT !.host = "waiting",
                               !.to_worker = Append(@, user_chosen_position),
                               !.requests = Append(@, user_chosen_position)]
    /\ UNCHANGED <<game, mmvars, mg, variant, net, batch, nodes, root, best_node, mode,
                   phase, pc, choice>>

\* AsyncMCTS.choose_move: return self.parent_pipe.recv()
HostRecv ==
    /\ pipe.host = "waiting"
    /\ pipe.to_parent # <<>>
    /\ pipe' = [pipe EXCEPT !.host = "idle", !.position = Head(pipe.to_parent),
                            !.to_parent = Tail(@)]
    /\ UNCHANGED <<game, mmvars, mg, variant, net, batch, nodes, root, best_node, mode,
                   phase, pc, choice>>

\* user_chosen_position = worker_pipe.recv(); the for loop over root.children
\* with its else branch; the break when the game is over
LoopRecv ==
    /\ Polls
    /\ pipe' = [pipe EXCEPT !.to_worker = Tail(@)]
    /\ \E found \in {matching_child(nodes, root, Head(pipe.to_worker))} :
          IF found = {}
          THEN /\ pc' = "invalid"
               /\ UNCHANGED <<nodes, root, phase>>
          ELSE \E i \in found :
                  LET child == Kids(nodes[root])[i]
                  IN  /\ root' = new_root(root, child)
                      /\ nodes' = [nodes EXCEPT ![root'].parent = None]
                      /\ IF is_over(nodes[root'].position)
                         THEN phase' = "over" /\ pc' = "over"
                         ELSE phase' = "think" /\ pc' = "select"
    /\ best_node' = None
    /\ UNCHANGED <<game, mmvars, mg, variant, net, batch, mode, choice>>

\* the time limit has passed or the tree is fully expanded:
\* root = root.choose_best_node(optimal=True); root.parent = None;
\* worker_pipe.send(root.position); the break when the game is over
LoopSend ==
    /\ pipe.host # "none"
    /\ phase = "think"
    /\ pc \in {"select", "solved"}
    /\ \E r \in {choose_best_node(nodes, root, TRUE)} :
          IF r.raised
          THEN /\ choice' = [made |-> TRUE, node |-> root, raised |-> TRUE, index |-> 0]
               /\ pc' = "raised"
               /\ UNCHANGED <<nodes, root, phase, pipe>>
          ELSE \E i \in r.returns :
                  LET child == Kids(nodes[root])[i]
                  IN  /\ choice' = [made |-> TRUE, node |-> root, raised |-> FALSE,
                                    index |-> i]
                      /\ root' = new_root(root, child)
                      /\ nodes' = [nodes EXCEPT ![root'].parent = None]
                      /\ pipe' = [pipe EXCEPT
                                     !.to_parent = Append(@, nodes[root'].position),
                                     !.replies = Append(@, nodes[root'].position)]
                      /\ IF is_over(nodes[root'].position)
                         THEN phase' = "over" /\ pc' = "over"
                         ELSE phase' = "ponder" /\ pc' = "select"
    /\ best_node' = None
    /\ UNCHANGED <<game, mmvars, mg, variant, net, batch, mode>>

NextSession ==
    \/ LoopSelect
    \/ ExpandRollout
    \/ ExpandHeuristic
    \/ LoopRecv
    \/ LoopSend
    \/ HostSend
    \/ HostRecv

SpecSession == InitSession /\ [][NextSession]_vars

----------------------------------------------------------------------------
(* The parallel pondering session as the program builds it (mcts.py:       *)
(* AsyncMCTSRoot.__init__, start, choose_move, worker_loop_func and        *)
(* manager_loop_func).  mg holds the session: the constructor's arguments, *)
(* the host, the manager and the workers.                                  *)

\* the worker processes of the session
Workers == 1..mg.threads

InitRoot ==
    /\ game \in GamesSession
    /\ MMIdle
    /\ variant \in {"rollout", "heuristic"}
    /\ net \in IF variant = "heuristic" THEN NetsFor(game) ELSE {<<>>}
    /\ batch = 1
    /\ nodes = <<>>
    /\ root = None
    /\ best_node = None
    /\ mode = "root"
    /\ phase = "idle"
    /\ pc = "idle"
    /\ choice = NoChoice
    /\ pipe = NoPipe
    /\ \E threads \in 1..Threads, timed \in BOOLEAN :
          mg = [stage |-> "new", threads |-> threads, timed |-> timed,
                host |-> "idle", manager |-> "none",
                workers |-> [w \in 1..threads |-> "none"]]

\* AsyncMCTSRoot.__init__: with networks the root is HeuristicNode(position,
\* None, GameClass, ), which lacks the required argument network and raises;
\* otherwise the root is a RolloutNode and one process per thread is created
\* with args=(worker_pipe, time_limit).  The parent ends of the Pipes are
\* kept nowhere, and no ui_pipe and no manager process are created.
Construct ==
    /\ mg.stage = "new"
    /\ IF variant = "heuristic"
       THEN /\ mg' = [mg EXCEPT !.stage = "raised"]
            /\ UNCHANGED <<nodes, root>>
       ELSE /\ mg' = [mg EXCEPT !.stage = "built",
                                !.workers = [w \in Workers |-> "created"]]
            /\ nodes' = [id \in {1} |-> NewNode(1, None)]
            /\ root' = 1
    /\ UNCHANGED <<game, mmvars, pipe, variant, net, batch, best_node, mode, phase, pc,
                   choice>>

\* AsyncMCTSRoot.start
Start ==
    /\ mg.stage = "built"
    /\ mg' = [mg EXCEPT !.stage = "started",
                        !.workers = [w \in Workers |-> "begin"]]
    /\ UNCHANGED <<game, mmvars, pipe, variant, net, batch, nodes, root, best_node, mode,
                   phase, pc, choice>>

\* worker_loop_func(worker_pipe, network) is entered with network = time_limit:
\* if network is not None: network.initialize() raises on a number; with
\* time_limit=None the worker goes on to  root = worker_pipe.recv()
WorkerBegin ==
    /\ \E w \in Workers :
          /\ mg.workers[w] = "begin"
          /\ mg' = [mg EXCEPT !.workers[w] = IF mg.timed THEN "raised" ELSE "recv"]
    /\ UNCHANGED <<game, mmvars, pipe, variant, net, batch, nodes, root, best_node, mode,
                   phase, pc, choice>>

\* root = worker_pipe.recv() with no process holding the other end: recv
\* raises EOFError once every copy of the other end is closed, and blocks as
\* long as a copy is left open (the worker then stays at "recv")
WorkerEOF ==
    /\ \E w \in Workers :
          /\ mg.workers[w] = "recv"
          /\ mg' = [mg EXCEPT !.workers[w] = "raised"]
    /\ UNCHANGED <<game, mmvars, pipe, variant, net, batch, nodes, root, best_node, mode,
                   phase, pc, choice>>

\* AsyncMCTSRoot.choose_move: self.ui_pipe.send(user_chosen_position) raises
\* AttributeError, the object has no ui_pipe
ChooseMove ==
    /\ mg.stage \in {"built", "started"}
    /\ mg.host = "idle"
    /\ mg' = [mg EXCEPT !.host = "raised"]
    /\ UNCHANGED <<game, mmvars, pipe, variant, net, batch, nodes, root, best_node, mode,
                   phase, pc, choice>>

\* a host that runs the static manager_loop_func itself: its first statement,
\* root = Node(position, None, GameClass), raises NameError
ManagerLoop ==
    /\ mg.stage \in {"built", "started"}
    /\ mg.manager = "none"
    /\ mg' = [mg EXCEPT !.manager = "raised"]
    /\ UNCHANGED <<game, mmvars, pipe, variant, net, batch, nodes, root, best_node, mode,
                   phase, pc, choice>>

NextRoot ==
    \/ Construct
    \/ Start
    \/ WorkerBegin
    \/ WorkerEOF
    \/ ChooseMove
    \/ ManagerLoop

SpecRoot == InitRoot /\ [][NextRoot]_vars

----------------------------------------------------------------------------
(* expand() called by hand on any node of a tree the search has grown      *)
(* (mcts.py: RolloutNode.expand, HeuristicNode.expand).                    *)

InitExpand ==
    /\ game \in GamesSession
    /\ MMIdle
    /\ variant \in {"rollout", "heuristic"}
    /\ net \in IF variant = "heuristic" THEN NetsFor(game) ELSE {<<>>}
    /\ batch = 1
    /\ nodes = [id \in {1} |-> NewNode(1, None)]
    /\ root = 1
    /\ best_node = None
    /\ mode = "direct"
    /\ phase = "think"
    /\ pc = "select"
    /\ choice = NoChoice
    /\ mg = NoMerge
    /\ pipe = NoPipe

\* node.expand() on a node of the tree, between two iterations of the search
ExpandCall ==
    /\ mode = "direct"
    /\ pc \in {"select", "solved"}
    /\ \E self \in DOMAIN nodes :
          IF variant = "rollout"
          THEN \E rollout_sum \in BatchSums(nodes[self].position, batch) :
                  /\ nodes' = rollout_expand(nodes, self, rollout_sum)
                  /\ mg' = [stage |-> "expand", node |-> self, raised |-> FALSE,
                            before |-> nodes]
          ELSE \E r \in {heuristic_expand(nodes, self)} :
                  /\ nodes' = r.nodes
                  /\ mg' = [stage |-> "expand", node |-> self, raised |-> r.raised,
                            before |-> nodes]
    /\ pc' = "called"
    /\ UNCHANGED <<game, mmvars, pipe, variant, net, batch, root, best_node, mode, phase,
                   choice>>

NextExpand == Select \/ ExpandRollout \/ ExpandHeuristic \/ ExpandCall

SpecExpand == InitExpand /\ [][NextExpand]_vars

----------------------------------------------------------------------------
(* The synchronous controllers called on any position of the game          *)
(* (mini_max.py: MiniMax.choose_move; mcts.py: MCTS.choose_move).  mg      *)
(* keeps the position MCTS.choose_move was called with.                    *)

\* the heuristic functions tried: one value at every position inside the game
HeuristicsCall(g) ==
    { [p \in 1..Len(g.moves) |-> IF p > 1 /\ g.moves[p] # <<>> THEN v ELSE 0] : v \in HValues }

InitCall ==
    /\ game \in GamesSession
    /\ hfun \in HeuristicsCall(game)
    /\ mm = NoCall
    /\ variant \in {"rollout", "heuristic"}
    /\ net \in IF variant = "heuristic" THEN NetsFor(game) ELSE {<<>>}
    /\ batch = 1
    /\ nodes = <<>>
    /\ root = None
    /\ best_node = None
    /\ mode = "sync"
    /\ phase = "idle"
    /\ pc = "idle"
    /\ choice = NoChoice
    /\ mg = NoMerge
    /\ pipe = NoPipe

\* MiniMax.choose_move: the caller comes here at once, or after
\* MCTS.choose_move has raised
MiniMaxCall ==
    /\ pc \in {"idle", "raised"}
    /\ (SolverCall \/ DepthCall)

\* MCTS.choose_move(position) up to its loop: the check of is_over and the
\* root node
MCTSCall ==
    /\ mode = "sync"
    /\ mg = NoMerge
    /\ mm = NoCall
    /\ \E position \in Positions :
          /\ mg' = [stage |-> "called", position |-> position]
          /\ IF is_over(position)
             THEN /\ pc' = "raised"
                  /\ phase' = "raised"
                  /\ UNCHANGED <<nodes, root>>
             ELSE /\ nodes' = [id \in {position} |-> NewNode(position, None)]
                  /\ root' = position
                  /\ pc' = "select"
                  /\ phase' = "think"
    /\ UNCHANGED <<game, mmvars, pipe, variant, net, batch, best_node, mode, choice>>

NextCall ==
    \/ MiniMaxCall
    \/ MCTSCall
    \/ Select
    \/ ExpandRollout
    \/ ExpandHeuristic
    \/ EngineMove

SpecCall == InitCall /\ [][NextCall]_vars

----------------------------------------------------------------------------
(* The evaluator's lazy initialization (Network.py: Network.__init__,      *)
(* Network.initialize).  net holds the Network object: the shapes of its   *)
(* GameClass, the model file behind model_path (None without a path), the  *)
(* model attribute, and what each initialize() call did.                   *)

MaxInitCalls == 3     \* initialize() calls made on one Network

\* the shapes tried for GameClass.STATE_SHAPE and GameClass.MOVE_SHAPE and
\* for the model files
ShapesTried == { <<3, 3, 2>>, <<3, 3, 1>> }

\* None where a model or the file of a model path is expected
NoModel == [input_shape |-> <<>>, output_shape |-> <<>>]

\* a keras model with the given input shape and policy output shape: its
\* input_shape and output_shape attributes
KerasModel(input_shape, output_shape) ==
    [input_shape  |-> <<None>> \o input_shape,
     output_shape |-> << <<None>> \o output_shape, <<None, 1>> >>]

\* self.create_model(): a model built from the shapes of the GameClass
create_model(self) == KerasModel(self.STATE_SHAPE, self.MOVE_SHAPE)

\* Network.initialize(): the Network it leaves, with the call's outcome added
\* to results.  self.model is assigned by load_model before the shapes are
\* compared.
initialize(self) ==
    IF self.model # NoModel THEN [self EXCEPT !.results = Append(@, "returned")]
    ELSE IF self.model_path # NoModel
    THEN LET loaded == [self EXCEPT !.model = self.model_path]
         IN  IF loaded.model.input_shape # <<None>> \o self.STATE_SHAPE
             THEN [loaded EXCEPT !.results = Append(@, "raised")]
             ELSE IF loaded.model.output_shape
                        # << <<None>> \o self.MOVE_SHAPE, <<None, 1>> >>
             THEN [loaded EXCEPT !.results = Append(@, "raised")]
             ELSE [loaded EXCEPT !.results = Append(@, "returned")]
    ELSE [self EXCEPT !.model = create_model(self), !.results = Append(@, "returned")]

\* Network(GameClass, model_path)
InitNetwork ==
    /\ game \in GamesSession
    /\ MMIdle
    /\ variant = "heuristic"
    /\ \E state_shape \in ShapesTried, move_shape \in ShapesTried :
          \E model_path \in {NoModel} \cup {KerasModel(i, o) : i \in ShapesTried,
                                                           o \in ShapesTried} :
              net = [STATE_SHAPE |-> state_shape, MOVE_SHAPE |-> move_shape,
                     model_path |-> model_path, model |-> NoModel, results |-> <<>>]
    /\ batch = 1
    /\ nodes = <<>>
    /\ root = None
    /\ best_node = None
    /\ mode = "network"
    /\ phase = "idle"
    /\ pc = "idle"
    /\ choice = NoChoice
    /\ mg = NoMerge
    /\ pipe = NoPipe

\* network.initialize(); an exception is caught by the caller, who may call
\* again
Initialize ==
    /\ mode = "network"
    /\ Len(net.results) < MaxInitCalls
    /\ net' = initialize(net)
    /\ UNCHANGED <<game, mmvars, mg, pipe, variant, batch, nodes, root, best_node, mode,
                   phase, pc, choice>>

NextNetwork == Initialize

SpecNetwork == InitNetwork /\ [][NextNetwork]_vars

----------------------------------------------------------------------------
(* The solver run on tic-tac-toe (mini_max.py: main).                      *)

STARTING_STATE == 1    \* the empty board

MaxMarks == 3          \* marks on the boards the solver is started on, besides the empty one

RECURSIVE BoardsAfter(_)

\* the boards reached from the empty board by k moves
BoardsAfter(k) ==
    IF k = 0 THEN {STARTING_STATE}
    ELSE UNION {Range(TicTacToe.moves[p]) : p \in BoardsAfter(k - 1)}

\* the position the solver is going to be started on
InitTicTacToe ==
    /\ game = TicTacToeGame
    /\ hfun = <<>>
    /\ mm \in {[called |-> FALSE, position |-> position] :
                  position \in {STARTING_STATE} \cup BoardsAfter(MaxMarks)}
    /\ SearchIdle

\* main(): print(MiniMax.solver(GameClass).choose_move(position,
\* return_heuristic=True)); mm keeps what is printed
Main ==
    /\ ~mm.called
    /\ game = TicTacToeGame
    /\ \E r \in {choose_move(mm.position, Inf)} :
          mm' = [called |-> TRUE, position |-> mm.position, depth |-> Inf,
                 result |-> [raised |-> r.raised, move |-> r.move, value |-> r.value]]
    /\ UNCHANGED <<game, hfun, searchvars>>

NextTicTacToe == Main

SpecTicTacToe == InitTicTacToe /\ [][NextTicTacToe]_vars

----------------------------------------------------------------------------
(* Properties of the pondering session.                                    *)

\* the engine's process has ended: by the break at the end of the game, or by
\* an exception
Stopped == pc \in {"over", "raised", "invalid"}

\* the host waits for the answer to a request whose opponent move is a legal
\* move at the host's position and leaves the game open
OpenRequest ==
    /\ pipe.host = "waiting"
    /\ pipe.requests[Len(pipe.requests)] \in Range(get_possible_moves(pipe.position))
    /\ ~is_over(pipe.requests[Len(pipe.requests)])

\* C12: a move request that follows a legal opponent move which leaves the
\* game open is answered: while the host waits for the chosen position, the
\* engine is still running or its answer is on the way.
C12_RequestAnswered ==
    OpenRequest => (~Stopped \/ pipe.to_parent # <<>>)

\* the engine has reported a position and has not yet received the next
\* opponent move
Reported ==
    /\ pipe.host # "none"
    /\ pipe.replies # <<>>
    /\ (Len(pipe.requests) = Len(pipe.replies) \/ pipe.to_worker # <<>>)

\* the position the engine reported last
LastReply == pipe.replies[Len(pipe.replies)]

\* the step receives an opponent move from the Pipe
Receives == pipe.host # "none" /\ Len(pipe'.to_worker) < Len(pipe.to_worker)

\* C13: after the engine has reported P (a successor of the opponent's last
\* position), the node of P is its root and has no parent; the opponent move
\* it receives next becomes the root only as a child of the current root with
\* that position; once the position reached by either side's move is
\* game-over the engine has stopped, and a stopped engine changes no node and
\* sends nothing.
C13_ReportedIsRoot ==
    /\ [](Reported =>
            /\ nodes[root].position = LastReply
            /\ nodes[root].parent = None
            /\ LastReply \in Range(get_possible_moves(pipe.requests[Len(pipe.replies)])))
    /\ [](pipe.host # "none" => (is_over(nodes[root].position) <=> pc = "over"))
    /\ [][Receives =>
            \/ pc' = "invalid" /\ root' = root
            \/ /\ root' \in Range(Kids(nodes[root]))
               /\ nodes'[root'].position = Head(pipe.to_worker)
               /\ nodes'[root'].parent = None]_vars
    /\ [][(pipe.host # "none" /\ pc = "over") =>
            /\ nodes' = nodes /\ root' = root /\ pc' = pc
            /\ pipe'.to_parent \in {pipe.to_parent, Tail(pipe.to_parent)}
            /\ pipe'.replies = pipe.replies]_vars

\* C13 witness: the engine reported a position, the opponent's next move was
\* matched against the children of that root, and it ended the game
C13_Witness ==
    /\ pipe.host # "none"
    /\ Len(pipe.requests) = 2
    /\ Len(pipe.replies) = 1
    /\ pipe.to_worker = <<>>
    /\ nodes[root].position = pipe.requests[2]
    /\ pipe.requests[2] \in Range(get_possible_moves(pipe.replies[1]))
    /\ pc = "over"

\* the opponent move waiting in the Pipe is the position of no child of the
\* engine's root
NoSuchChild ==
    \A i \in 1..Len(Kids(nodes[root])) :
        nodes[Kids(nodes[root])[i]].position # Head(pipe.to_worker)

\* C14: an opponent move that matches no child of the current root is fatal:
\* the step that receives it keeps the root and every node, sends nothing and
\* ends the engine; afterwards the engine neither searches nor re-roots nor
\* sends, and the host holds no answer.
C14_InvalidMoveIsFatal ==
    /\ [][(Receives /\ NoSuchChild) =>
            /\ pc' = "invalid"
            /\ root' = root /\ nodes' = nodes
            /\ pipe'.to_parent = pipe.to_parent /\ pipe'.replies = pipe.replies]_vars
    /\ [][pc = "invalid" =>
            /\ pc' = pc /\ root' = root /\ nodes' = nodes
            /\ pipe' = pipe]_vars
    /\ [](pc = "invalid" => (pipe.host = "waiting" /\ pipe.to_parent = <<>>))

\* C14 witness: the engine has root children and was sent a position that is
\* none of theirs: it has stopped on the error
C14_Witness ==
    /\ pc = "invalid"
    /\ HasChildren(nodes[root])
    /\ pipe.replies # <<>>

----------------------------------------------------------------------------
(* Properties of the parallel pondering session.                           *)

\* C15: in a parallel pondering session on a game that is not over, no
\* worker, manager or host has ended on an error, and a worker that waits
\* for a message has a running manager that will send it.
C15_WorkersAreServed ==
    (mode = "root" /\ mg.stage \in {"built", "started"}) =>
        /\ mg.host # "raised"
        /\ mg.manager # "raised"
        /\ \A w \in Workers :
              /\ mg.workers[w] # "raised"
              /\ mg.workers[w] = "recv" => mg.manager = "running"

----------------------------------------------------------------------------
(* Properties of expand().                                                 *)

\* expand() was called on a node that was fully expanded (terminal or
\* solved) or, in the heuristic variant, already had children
Misused ==
    /\ mg.stage = "expand"
    /\ \/ mg.before[mg.node].fully_expanded
       \/ variant = "heuristic" /\ HasChildren(mg.before[mg.node])

\* C16: expand() on a node that is already fully expanded or terminal
\* (either variant) or already has children (heuristic variant) raises and
\* leaves the statistics of the node and of its ancestors as they were.
C16_MisuseIsSignalled ==
    Misused =>
        /\ mg.raised
        /\ \A id \in Ancestors(mg.before, mg.node) :
              /\ count_expansions(nodes, id) = count_expansions(mg.before, id)
              /\ get_evaluation(nodes, id) = get_evaluation(mg.before, id)

----------------------------------------------------------------------------
(* Properties of the synchronous controllers' entry.                       *)

\* C17: called on a position where the game is over, MiniMax.choose_move
\* raises having examined no successor and called no heuristic, and
\* MCTS.choose_move raises having built no node.
C17_GameOverCallRaises ==
    /\ (mm.called /\ is_over(mm.position)) =>
          /\ mm.result.raised
          /\ mm.result.move = None
          /\ mm.result.examined = {}
          /\ mm.result.hcalls = {}
    /\ (mg.stage = "called" /\ is_over(mg.position)) =>
          /\ pc = "raised"
          /\ nodes = <<>>
          /\ root = None

\* C17 witness: both controllers were called on positions where the game is
\* over, and both raised
C17_Witness ==
    /\ mm.called /\ is_over(mm.position) /\ mm.result.raised
    /\ mg.stage = "called" /\ is_over(mg.position) /\ pc = "raised"

----------------------------------------------------------------------------
(* Properties of the expansion counts.                                     *)

\* the expansions a node does itself: one rollout batch, or the one
\* evaluator call that creates its children
DirectWork == IF variant = "rollout" THEN batch ELSE 1

\* the node has children and none of them is solved
OpenChildren(h, id) ==
    /\ HasChildren(h[id])
    /\ \A i \in 1..Len(Kids(h[id])) : ~Solved(h, Kids(h[id])[i])

\* the sum of the children's expansion counts
ChildrenCount(h, id) ==
    SeqSum([i \in 1..Len(Kids(h[id])) |-> count_expansions(h, Kids(h[id])[i])])

\* C18: in the tree below the root, every node that has children none of
\* which is solved has an expansion count of at most its own direct work plus
\* the sum of its children's expansion counts.
C18_CountWithinChildren ==
    root # None =>
        \A id \in Subtree(nodes, root) :
            OpenChildren(nodes, id) =>
                count_expansions(nodes, id) <= DirectWork + ChildrenCount(nodes, id)

----------------------------------------------------------------------------
(* Properties of the evaluator's initialization.                           *)

\* the model file behind model_path does not have the shapes of the GameClass
Mismatch ==
    /\ net.model_path # NoModel
    /\ net.model_path # create_model(net)

\* C19: with a loaded model whose input or output shape does not match,
\* every initialize() call raises and the Network never holds a model.
C19_MismatchNeverInitialized ==
    (mode = "network" /\ Mismatch) =>
        /\ \A i \in 1..Len(net.results) : net.results[i] = "raised"
        /\ net.model = NoModel

----------------------------------------------------------------------------
(* Properties of the solver on tic-tac-toe.                                *)

\* C20: the solver started on the empty 3x3 tic-tac-toe board reports the
\* value 0, a draw.
C20_TicTacToeIsDrawn ==
    (game = TicTacToeGame /\ mm.called /\ mm.position = STARTING_STATE) =>
        /\ ~mm.result.raised
        /\ mm.result.value = 0

\* C20 witness: the solver has answered on the empty board with a first move
C20_Witness ==
    /\ game = TicTacToeGame
    /\ mm.called /\ mm.position = STARTING_STATE
    /\ mm.result.move \in Range(TicTacToe.moves[STARTING_STATE])


----------------------------------------------------------------------------
(* Properties of selection and expansion under the drivers.                *)

\* expand() on the node signals misuse, or would have to: the node has
\* children or is fully expanded
ExpandMisuse(h, id) == HasChildren(h[id]) \/ h[id].fully_expanded

\* the search loop with no time budget and no move arriving: the loop of
\* MCTS.choose_move with time_limit = inf, the pondering loop of
\* AsyncMCTS.loop_func while the host stays silent.  The loop is sequential
\* code, so a step that can be taken is taken.
NextLoop == Select \/ ExpandRollout \/ ExpandHeuristic

\* the loop moves on: every step of NextLoop changes pc, and one can be taken
\* whenever pc is "select" or "expand"
SpecLoop ==
    /\ Init
    /\ [][NextLoop]_vars
    /\ WF_pc(/\ pc \in {"select", "expand"}
             /\ pc' \in {"select", "expand", "solved", "raised"} \ {pc})

\* C21: every root.choose_expansion_node() of the driver loops returns a node
\* that is not fully expanded, has expansion count 0 and has no children, or
\* None; it returns None only when the root is fully expanded on return.  So
\* the expand() the loop calls next is never a misuse, and the heuristic
\* variant's expand() does not raise.
C21_SelectionReturnsLeafOrNone ==
    /\ pc = "expand" =>
          /\ best_node # None
          /\ best_node \in Subtree(nodes, root)
          /\ ~nodes[best_node].fully_expanded
          /\ count_expansions(nodes, best_node) = 0
          /\ ~HasChildren(nodes[best_node])
          /\ ~ExpandMisuse(nodes, best_node)
          /\ variant = "heuristic" => ~heuristic_expand(nodes, best_node).raised
    /\ pc = "solved" => best_node = None /\ nodes[root].fully_expanded

\* C21 witness: a selection that went down two levels, past a solved child,
\* and returned a leaf.
C21_Witness ==
    /\ pc = "expand"
    /\ nodes[best_node].parent # None
    /\ nodes[nodes[best_node].parent].parent = root
    /\ \E id \in Subtree(nodes, root) : id # root /\ Solved(nodes, id)


\* C22: from a root where the game is not over, repeating
\* choose_expansion_node and expand with no time budget eventually reaches a
\* state where choose_expansion_node has returned None and the root is fully
\* expanded, in both node variants.
C22_SearchCompletes ==
    <>(pc = "solved" /\ best_node = None /\ nodes[root].fully_expanded)

\* C22 witness: the loop has solved a root after expanding below its
\* children, and one node of the tree was never expanded.
C22_Witness ==
    /\ pc = "solved"
    /\ nodes[root].fully_expanded
    /\ \E id \in Subtree(nodes, root) :
          nodes[id].parent \notin {None, root} /\ count_expansions(nodes, id) > 0
    /\ \E id \in Subtree(nodes, root) : count_expansions(nodes, id) = 0


\* the nodes of the tree where a selection goes through the loop over the
\* children: not fully expanded, with a positive finite expansion count
Scanning ==
    {id \in Subtree(nodes, root) :
        /\ ~nodes[id].fully_expanded
        /\ count_expansions(nodes, id) \in 1..(Inf - 1)}

\* the i-th child is solved with the outcome the mover at the node prefers:
\* the loop ends there and the node is closed
Closing(h, id, i) ==
    /\ h[Kids(h[id])[i]].fully_expanded
    /\ get_evaluation(h, Kids(h[id])[i]) = <<MoverWin(h, id), 1>>

\* the i-th child is not solved and has expansion count 0
Unvisited(h, id, i) ==
    /\ ~h[Kids(h[id])[i]].fully_expanded
    /\ count_expansions(h, Kids(h[id])[i]) = 0

\* the unvisited children the loop over the children comes to
UnvisitedMet(h, id) ==
    {i \in 1..Len(Kids(h[id])) :
        Unvisited(h, id, i) /\ \A j \in 1..(i - 1) : ~Closing(h, id, j)}

\* C23 as stated: a selection at a node that is not fully expanded and has a
\* positive expansion count returns the first unvisited, non-solved child the
\* loop over the children comes to, in both node variants.
C23_UnvisitedChildFirst ==
    pc = "select" =>
        \A id \in Scanning :
            LET h1 == ensure_children(nodes, id)
            IN  UnvisitedMet(h1, id) # {} =>
                    choose_expansion_node(nodes, id, {}).node
                        = Kids(h1[id])[Min(UnvisitedMet(h1, id))]

\* child.get_evaluation() + puct for player 1, - puct for player 2, as a
\* fraction
CombinedScore(h, id, i) ==
    FracAdd(get_evaluation(h, Kids(h[id])[i]),
            <<IF is_player_1_turn(h[id].position)
              THEN get_puct_heuristic_for_child(h, id, i)
              ELSE -get_puct_heuristic_for_child(h, id, i), Scale>>)

\* the mover at the node strictly prefers the score of child i to that of j
Outscores(h, id, i, j) ==
    IF is_player_1_turn(h[id].position)
    THEN FracLess(CombinedScore(h, id, j), CombinedScore(h, id, i))
    ELSE FracLess(CombinedScore(h, id, i), CombinedScore(h, id, j))

\* the non-solved children with the best score, the first among equals
BestScored(h, id) ==
    LET open == {i \in 1..Len(Kids(h[id])) : ~h[Kids(h[id])[i]].fully_expanded}
    IN  {i \in open : /\ \A j \in open : j < i => Outscores(h, id, i, j)
                      /\ \A j \in open : j > i => ~Outscores(h, id, j, i)}

\* C23, amended: in the rollout variant the selection returns the first
\* unvisited, non-solved child the loop comes to, before any comparison of
\* scores.  In the heuristic variant the exploration term of an unvisited
\* child is finite, so it has no priority: at a node none of whose children
\* closes it, the selection goes to the non-solved child with the best score
\* (value plus or minus exploration and prior, first among equals) and
\* returns it when it is unvisited.
C23_UnvisitedFirstInRollout ==
    pc = "select" =>
        \A id \in Scanning :
            LET h1 == ensure_children(nodes, id)
                returned == choose_expansion_node(nodes, id, {}).node
            IN  IF variant = "rollout"
                THEN UnvisitedMet(h1, id) # {} =>
                        returned = Kids(h1[id])[Min(UnvisitedMet(h1, id))]
                ELSE \A i \in BestScored(h1, id) :
                        /\ \A j \in 1..Len(Kids(h1[id])) : ~Closing(h1, id, j)
                        /\ Unvisited(h1, id, i)
                        => returned = Kids(h1[id])[i]

\* C23 witness: the rollout variant, a node whose first child is visited and
\* not solved and whose second child is unvisited.
C23_Witness ==
    /\ pc = "select"
    /\ variant = "rollout"
    /\ \E id \in Scanning :
          /\ HasChildren(nodes[id])
          /\ ~nodes[Kids(nodes[id])[1]].fully_expanded
          /\ count_expansions(nodes, Kids(nodes[id])[1]) > 0
          /\ Unvisited(nodes, id, 2)


\* a step of the driver that is best_node.expand() of a RolloutNode
RolloutExpandStep == pc = "expand" /\ variant = "rollout" /\ pc' = "select"

\* the nodes of the root's tree that hold the node in their subtree: the node
\* and its ancestors up to the root
UpToRoot(h, id) == {a \in Subtree(h, root) : id \in Subtree(h, a)}

\* C24: RolloutNode.expand() on a node adds the sum of the batch's outcomes to
\* rollout_sum and the batch size to rollout_count of the node and of every
\* ancestor up to the root, once each, and changes nothing else of any node.
C24_RolloutBackup ==
    [][RolloutExpandStep =>
          /\ DOMAIN nodes' = DOMAIN nodes
          /\ \E rollout_sum \in BatchSums(nodes[best_node].position, batch) :
                /\ rollout_sum \in (-batch)..batch
                /\ \A id \in NodeIds :
                      IF id \in UpToRoot(nodes, best_node)
                      THEN nodes'[id] =
                               [nodes[id] EXCEPT !.rollout_sum = @ + rollout_sum,
                                                 !.rollout_count = @ + batch]
                      ELSE nodes'[id] = nodes[id]]_vars

\* C24 witness: an expansion below the root has just been carried out, with
\* a visited, unsolved node beside the path.
C24_Witness ==
    /\ pc = "select"
    /\ variant = "rollout"
    /\ best_node # None
    /\ Cardinality(UpToRoot(nodes, best_node)) = 2
    /\ \E id \in Subtree(nodes, root) \ UpToRoot(nodes, best_node) :
          count_expansions(nodes, id) \in 1..(Inf - 1)


\* a step of the driver that is best_node.expand() of a HeuristicNode
HeuristicExpandStep == pc = "expand" /\ variant = "heuristic" /\ pc' = "select"

\* the value strictly improves what the node holds, for the player to move
\* at the node
Improves(h, id, value) ==
    IF is_player_1_turn(h[id].position) THEN value > h[id].heuristic
    ELSE value < h[id].heuristic

\* C25: HeuristicNode.expand() on a node sets its value to the max (player 1
\* to move) or min (player 2) of its new children's values; an ancestor takes
\* that value exactly when the value strictly improves, for their own movers,
\* the ancestor's value and the value of every ancestor below it, so values
\* stop changing at the first unaffected ancestor; and the expansion count of
\* every ancestor up to the root grows by exactly 1.
C25_HeuristicBackup ==
    [][HeuristicExpandStep =>
          LET kids == Kids(nodes'[best_node])
              values == {nodes'[kids[i]].heuristic : i \in 1..Len(kids)}
              value == IF is_player_1_turn(nodes[best_node].position)
                       THEN Max(values) ELSE Min(values)
              above == UpToRoot(nodes, best_node) \ {best_node}
              reached(a) == \A b \in above \cap Subtree(nodes, a) :
                               Improves(nodes, b, value)
          IN  /\ nodes'[best_node].heuristic = value
              /\ \A a \in above :
                    /\ nodes'[a].heuristic =
                           IF reached(a) THEN value ELSE nodes[a].heuristic
                    /\ nodes'[a].expansions = nodes[a].expansions + 1
                    /\ nodes'[a].children = nodes[a].children
              /\ \A id \in NodeIds \ UpToRoot(nodes, best_node) :
                    nodes'[id] = nodes[id]]_vars

\* C25 witness: an expansion two levels below the root has just been carried
\* out; the parent did not take the new value, and the root kept its value
\* although the new value would improve it.
C25_Witness ==
    /\ pc = "select"
    /\ variant = "heuristic"
    /\ best_node # None
    /\ HasChildren(nodes[best_node])
    /\ nodes[best_node].expansions = 1
    /\ nodes[best_node].parent \notin {None, root}
    /\ nodes[nodes[best_node].parent].parent = root
    /\ nodes[nodes[best_node].parent].heuristic # nodes[best_node].heuristic
    /\ Improves(nodes, root, nodes[best_node].heuristic)


\* C26: in every state reached through selection, expansion, re-rooting and
\* merge, a node's count_expansions() is +infinity if and only if the node is
\* flagged fully expanded.
C26_InfiniteCountIffSolved ==
    \A id \in NodeIds :
        (count_expansions(nodes, id) = Inf) <=> nodes[id].fully_expanded


\* the positions of the node's children, in the order of the children list
ChildPositions(h, id) == [i \in 1..Len(Kids(h[id])) |-> h[Kids(h[id])[i]].position]

\* C27: once a node's children are set, no step of selection, expansion or
\* merge changes the children sequence; it holds one child per legal
\* successor, in the game's enumeration order; and ensure_children on a node
\* that has children changes nothing (the expansion count of a HeuristicNode
\* included), so that calling it twice is the same as calling it once.
C27_ChildrenAreFixed ==
    /\ [][\A id \in NodeIds :
             HasChildren(nodes[id]) =>
                 /\ id \in DOMAIN nodes'
                 /\ nodes'[id].children = nodes[id].children]_vars
    /\ [](\A id \in NodeIds :
             HasChildren(nodes[id]) =>
                 /\ ChildPositions(nodes, id) = get_possible_moves(nodes[id].position)
                 /\ ensure_children(nodes, id) = nodes)
    /\ [](\A id \in Subtree(nodes, root) :
             ~HasChildren(nodes[id]) =>
                 LET h1 == ensure_children(nodes, id)
                 IN  /\ ChildPositions(h1, id) = get_possible_moves(nodes[id].position)
                     /\ ensure_children(h1, id) = h1)

\* C27 witness: the merge has given a node of the manager's tree the children
\* of a clone, and a node that had children before kept them.
C27_Witness ==
    /\ mg.stage = "merged"
    /\ \E id \in Subtree(nodes, 1) :
          /\ ~HasChildren(mg.before[id])
          /\ HasChildren(nodes[id])
    /\ HasChildren(mg.before[1])


----------------------------------------------------------------------------
(* Where MiniMax looks.                                                    *)

\* the positions exactly depth plies below position, for a finite depth
AtPlies(position, depth) == Below(position, depth) \ Below(position, depth - 1)

\* what a search of depth 1 must return: the best, for the mover, of the
\* outcomes of the finished successors and the heuristic of the others
OnePlyValue(position) ==
    LET values == {IF is_over(q) THEN get_winner(q) ELSE hfun[q] :
                       q \in Range(get_possible_moves(position))}
    IN  IF is_player_1_turn(position) THEN Max(values) ELSE Min(values)

\* C28: MiniMax with depth d >= 1 examines no position more than d plies
\* below the root and applies the heuristic function exactly to the
\* positions it examines d plies below the root where the game is not over;
\* a position where the game is over is never given to the heuristic
\* function and counts with its outcome; the solver never calls the
\* heuristic function.
C28_HeuristicOnlyAtDepth ==
    Answered =>
        /\ mm.result.examined \subseteq Below(mm.position, mm.depth)
        /\ \A p \in mm.result.hcalls : ~is_over(p)
        /\ mm.depth = Inf => mm.result.hcalls = {}
        /\ mm.depth # Inf =>
              mm.result.hcalls =
                  {p \in mm.result.examined \cap AtPlies(mm.position, mm.depth) :
                      ~is_over(p)}
        /\ mm.depth = 1 => mm.result.value = OnePlyValue(mm.position)

\* C28 witness: a search of depth 2 that consulted the heuristic function on
\* a position whose heuristic is not 0 and also came, 2 plies down, to a
\* position where the game is over with a winner.
C28_Witness ==
    /\ Answered
    /\ mm.depth = 2
    /\ \E p \in mm.result.hcalls : hfun[p] # 0
    /\ \E p \in mm.result.examined \cap AtPlies(mm.position, 2) :
          is_over(p) /\ get_winner(p) # 0


----------------------------------------------------------------------------
(* The evaluator calls of the heuristic variant.                           *)

\* Network.call(states): one pair of a prior vector and an evaluation per
\* position of the batch, in the order of the batch
network_call(states) ==
    [k \in 1..Len(states) |-> [policy |-> net.policy[states[k]],
                               evaluation |-> net.value[states[k]]]]

\* HeuristicNode.__init__: the prior vector the node holds, which is the one
\* the evaluator gives for its position unless the game is over there; <<>>
\* for self.policy = None
policy(h, self) ==
    IF is_over(h[self].position) THEN <<>>
    ELSE network_call(<<h[self].position>>)[1].policy

\* HeuristicNode.__init__ of the nodes for moves: the batches they hand to
\* network.call themselves, none when network_call_results is given or the
\* game is over
init_calls(moves, given) ==
    LET callers == SelectSeq(moves, LAMBDA q : ~is_over(q) /\ ~given)
    IN  [k \in 1..Len(callers) |-> <<callers[k]>>]

\* ensure_children with children that are not handed their results
ensure_children_calls_per_child(h, self) ==
    IF HasChildren(h[self]) THEN <<>>
    ELSE LET moves == get_possible_moves(h[self].position)
         IN  <<moves>> \o init_calls(moves, FALSE)

\* HeuristicNode.ensure_children(): the batches handed to network.call, in
\* order
ensure_children_calls(h, self) ==
    IF HasChildren(h[self]) THEN <<>>
    ELSE LET moves == get_possible_moves(h[self].position)
         IN  <<moves>> \o init_calls(moves, TRUE)

\* no ensure_children() of the step found a node without children, so none
\* of them called the evaluator
NoChildrenBuilt ==
    \A id \in DOMAIN nodes' :
        /\ id \in DOMAIN nodes
        /\ nodes'[id].children = nodes[id].children

\* best_node.expand() made one evaluator call, on all successors of the node
\* at once, and the node has one child per successor, in the game's order
OneBatch ==
    LET moves == get_possible_moves(nodes[best_node].position)
    IN  /\ ensure_children_calls(nodes, best_node) = <<moves>>
        /\ HasChildren(nodes'[best_node])
        /\ Len(Kids(nodes'[best_node])) = Len(moves)
        /\ \A i \in 1..Len(moves) :
              /\ nodes'[Kids(nodes'[best_node])[i]].position = moves[i]
              /\ nodes'[Kids(nodes'[best_node])[i]].parent = best_node

\* the i-th child made by best_node.expand() holds the i-th pair of the call
HoldsCallResult(i) ==
    LET moves == get_possible_moves(nodes[best_node].position)
        child == Kids(nodes'[best_node])[i]
    IN  /\ nodes'[child].heuristic = network_call(moves)[i].evaluation
        /\ policy(nodes', child) = network_call(moves)[i].policy

\* C29 as stated: each HeuristicNode.expand() makes exactly one evaluator
\* call, batched over all legal successors of the node, and creates one
\* child per successor that carries the successor's prior and value from the
\* call; selection makes no evaluator call.
C29_OneBatchedCall ==
    [][/\ HeuristicExpandStep =>
             /\ OneBatch
             /\ \A i \in 1..Len(get_possible_moves(nodes[best_node].position)) :
                   HoldsCallResult(i)
       /\ (SelectionStep /\ variant = "heuristic") => NoChildrenBuilt]_vars

\* C29 amended: each HeuristicNode.expand() makes exactly one evaluator call,
\* batched over all legal successors of the node, and creates one child per
\* successor; a child where the game is not over carries the successor's
\* prior and value from the call, a child where the game is over carries the
\* outcome of the game and no prior, whatever the call returned for it;
\* selection makes no evaluator call.
C29_OneBatchedCallPerExpand ==
    [][/\ HeuristicExpandStep =>
             /\ OneBatch
             /\ \A i \in 1..Len(get_possible_moves(nodes[best_node].position)) :
                   LET child == Kids(nodes'[best_node])[i]
                   IN  IF is_over(nodes'[child].position)
                       THEN /\ nodes'[child].heuristic =
                                   get_winner(nodes'[child].position)
                            /\ policy(nodes', child) = <<>>
                       ELSE HoldsCallResult(i)
       /\ (SelectionStep /\ variant = "heuristic") => NoChildrenBuilt]_vars

\* C29 witness: a node below the root has just been expanded; one of its
\* children is a position where the game is over with a winner, another is
\* not and holds an evaluation of the evaluator.
C29_Witness ==
    /\ pc = "select"
    /\ variant = "heuristic"
    /\ best_node \notin {None, root}
    /\ HasChildren(nodes[best_node])
    /\ nodes[best_node].expansions = 1
    /\ \E i, j \in 1..Len(Kids(nodes[best_node])) :
          LET over == Kids(nodes[best_node])[i]
              open == Kids(nodes[best_node])[j]
          IN  /\ is_over(nodes[over].position)
              /\ get_winner(nodes[over].position) # 0
              /\ ~is_over(nodes[open].position)
              /\ nodes[open].heuristic = net.value[nodes[open].position]
              /\ nodes[open].heuristic # 0


----------------------------------------------------------------------------
(* A proven win at a root that is not closed.                              *)

\* the children of the node that are solved with the win of the mover there
ProvenWins(h, self) ==
    {i \in ChildIndices(h, self) :
        /\ Solved(h, Kids(h[self])[i])
        /\ get_evaluation(h, Kids(h[self])[i]) = <<MoverWin(h, self), 1>>}

\* C30: whenever choose_best_node is called on a root that is not marked
\* fully expanded and that has a child proven to be a win for the mover, the
\* call in optimal mode does not raise and returns a child that is a proven
\* win for the mover.
C30_ProvenWinIsPlayed ==
    (BestNodeCalled /\ ~Solved(nodes, choice.node)
        /\ ProvenWins(nodes, choice.node) # {}) =>
        LET r == choose_best_node(nodes, choice.node, TRUE)
        IN  /\ ~r.raised
            /\ r.returns \subseteq ProvenWins(nodes, choice.node)


----------------------------------------------------------------------------
(* The move the drivers answer with.                                       *)

\* the time budget may end here: the loop of MCTS.choose_move and the inner
\* loop of AsyncMCTS.loop_func test the clock before each iteration
BudgetMayEnd == phase = "think" /\ pc \in {"select", "solved"}

\* C31: at a position where the game is not over, whenever the time budget
\* of MCTS.choose_move or of the pondering engine after an opponent move
\* ends, after any number of iterations, root.choose_best_node(optimal=True)
\* returns a child whose position is one of the legal successors of the
\* root's position.
C31_AnswerIsLegalSuccessor ==
    (BudgetMayEnd /\ ~is_over(nodes[root].position)) =>
        LET r == choose_best_node(nodes, root, TRUE)
        IN  /\ ~r.raised
            /\ \A i \in r.returns :
                  nodes[Kids(nodes[root])[i]].position
                      \in Range(get_possible_moves(nodes[root].position))


----------------------------------------------------------------------------
(* Parent references.                                                      *)

\* C32: in the tree below the root a session holds (the driver's root, a
\* worker's root, the manager's root after a merge), the parent reference of
\* every child is the node whose children list it was reached through, so
\* that the parent references of a node lead through exactly the nodes
\* between it and the root of the tree.
C32_ParentIsOwner ==
    root \in DOMAIN nodes =>
        \A id \in Subtree(nodes, root) :
            /\ HasChildren(nodes[id]) =>
                  \A i \in 1..Len(Kids(nodes[id])) :
                      nodes[Kids(nodes[id])[i]].parent = id
            /\ Ancestors(nodes, id) = UpToRoot(nodes, id)


----------------------------------------------------------------------------
(* Re-rooting.                                                             *)

\* a step of the driver that replaces its root
ReRootStep == root' # root

\* C33: a step that re-roots the driver to a child of its root (the
\* opponent's move, or the engine's own move) changes nothing in the heap
\* but the parent reference of that child, which becomes None, so every node
\* of the retained subtree keeps its children, statistics and fully_expanded
\* flag; and no other step (selection, expansion, backup) changes a node
\* outside the tree of the current root, that is the discarded old roots and
\* siblings.
C33_ReRootKeepsSubtree ==
    [][/\ ReRootStep =>
             /\ HasChildren(nodes[root])
             /\ root' \in Range(Kids(nodes[root]))
             /\ nodes' = [nodes EXCEPT ![root'].parent = None]
             /\ \A id \in Subtree(nodes, root') \ {root'} : nodes'[id] = nodes[id]
             /\ Subtree(nodes', root') = Subtree(nodes, root')
       /\ ~ReRootStep =>
             \A id \in (DOMAIN nodes) \ Subtree(nodes, root) :
                 id \in DOMAIN nodes' /\ nodes'[id] = nodes[id]]_vars

\* C33 witness: the driver was re-rooted to a child that had children of its
\* own and has since expanded a node below the new root; the old root is
\* still in the heap, outside the tree.
C33_Witness ==
    /\ root # 1
    /\ 1 \in DOMAIN nodes
    /\ 1 \notin Subtree(nodes, root)
    /\ nodes[root].parent = None
    /\ pc = "select"
    /\ best_node \notin {None, root}
    /\ best_node \in Subtree(nodes, root)
    /\ count_expansions(nodes, 1) < count_expansions(nodes, root)


----------------------------------------------------------------------------
(* The first rollout search (MCTS.py: Node, MCTS.choose_move,               *)
(* AsyncMCTS.loop_func).  A Node has no fully_expanded flag; the children   *)
(* of a position where the game is over are the empty list << <<>> >>.      *)

MaxRollouts == 5   \* the rollout count of the root up to which the loops run

\* Node.__init__
LegacyNode(position, parent) ==
    [position |-> position, parent |-> parent, children |-> NoChildren,
     rollout_sum |-> 0, rollout_count |-> 0]

\* Node.ensure_children
legacy_ensure_children(h, self) ==
    IF HasChildren(h[self]) THEN h
    ELSE LET kids == FreshChildren(h, self)
         IN  [id \in (DOMAIN h) \cup Range(kids) |->
                 IF id = self THEN [h[self] EXCEPT !.children = <<kids>>]
                 ELSE IF id \in Range(kids)
                 THEN LegacyNode(id - (self - h[self].position), self)
                 ELSE h[id]]

RECURSIVE choose_rollout_node(_, _)

\* Node.choose_rollout_node: the heap it leaves and the node it returns, or
\* that it raised: best_child is still None after a loop over no children,
\* and None has no choose_rollout_node
choose_rollout_node(h, self) ==
    IF h[self].rollout_count = 0 THEN [raised |-> FALSE, node |-> self, nodes |-> h]
    ELSE LET h1 == legacy_ensure_children(h, self)
             kids == Kids(h1[self])
             score(i) ==
                 LET term == Exploration[h1[self].rollout_count][h1[kids[i]].rollout_count]
                 IN  FracAdd(<<h1[kids[i]].rollout_sum, h1[kids[i]].rollout_count>>,
                             <<IF node_is_maximizing(h1, self) THEN term ELSE -term, Scale>>)
             RECURSIVE loop(_, _)
             \* the for loop from the i-th child on, and the return after it
             loop(i, best_child) ==
                 IF i > Len(kids)
                 THEN IF best_child = None
                      THEN [raised |-> TRUE, node |-> None, nodes |-> h1]
                      ELSE choose_rollout_node(h1, kids[best_child])
                 ELSE IF h1[kids[i]].rollout_count = 0
                 THEN [raised |-> FALSE, node |-> kids[i], nodes |-> h1]
                 ELSE IF \/ best_child = None
                         \/ /\ node_is_maximizing(h1, self)
                            /\ FracLess(score(best_child), score(i))
                         \/ /\ ~node_is_maximizing(h1, self)
                            /\ FracLess(score(i), score(best_child))
                 THEN loop(i + 1, i)
                 ELSE loop(i + 1, best_child)
         IN  loop(1, None)

\* Node.choose_best_node: the index of the child it returns, None when no
\* child has been visited; iterating over children that are None raises
legacy_choose_best_node(h, self) ==
    IF ~HasChildren(h[self]) THEN [raised |-> TRUE, index |-> None]
    ELSE LET kids == Kids(h[self])
             value(i) == <<h[kids[i]].rollout_sum, h[kids[i]].rollout_count>>
             RECURSIVE loop(_, _)
             loop(i, best_child) ==
                 IF i > Len(kids) THEN [raised |-> FALSE, index |-> best_child]
                 ELSE IF h[kids[i]].rollout_count > 0
                         /\ \/ best_child = None
                            \/ /\ node_is_maximizing(h, self)
                               /\ FracLess(value(best_child), value(i))
                            \/ /\ ~node_is_maximizing(h, self)
                               /\ FracLess(value(i), value(best_child))
                 THEN loop(i + 1, i)
                 ELSE loop(i + 1, best_child)
         IN  loop(1, None)

InitLegacy ==
    /\ game \in GamesSearch
    /\ MMIdle
    /\ variant = "legacy"
    /\ net = <<>>
    /\ batch \in 1..MaxBatch
    /\ nodes = [id \in {1} |-> LegacyNode(1, None)]
    /\ root = 1
    /\ best_node = None
    /\ mode \in {"sync", "async"}
    /\ phase = IF mode = "sync" THEN "think" ELSE "ponder"
    /\ pc = "select"
    /\ choice = NoChoice
    /\ mg = NoMerge
    /\ pipe = NoPipe

\* root.choose_rollout_node(c).rollout(threads, pool)
LegacyIterate ==
    /\ pc = "select"
    /\ nodes[root].rollout_count < MaxRollouts
    /\ \E r \in {choose_rollout_node(nodes, root)} :
          IF r.raised
          THEN /\ nodes' = r.nodes
               /\ best_node' = None
               /\ pc' = "raised"
          ELSE /\ \E rollout_sum \in BatchSums(r.nodes[r.node].position, batch) :
                     nodes' = rollout_expand(r.nodes, r.node, rollout_sum)
               /\ best_node' = r.node
               /\ pc' = "select"
    /\ choice' = NoChoice
    /\ UNCHANGED <<game, mmvars, mg, pipe, variant, net, batch, root, mode, phase>>

\* the opponent's move is polled after an iteration: root = child,
\* root.parent = None; the game is not tested for its end
LegacyUserMove ==
    /\ phase = "ponder"
    /\ pc = "select"
    /\ HasChildren(nodes[root])
    /\ \E i \in 1..Len(Kids(nodes[root])) :
          LET child == Kids(nodes[root])[i]
          IN  /\ root' = child
              /\ nodes' = [nodes EXCEPT ![child].parent = None]
    /\ phase' = "think"
    /\ best_node' = None
    /\ choice' = NoChoice
    /\ UNCHANGED <<game, mmvars, mg, pipe, variant, net, batch, mode, pc>>

\* the time budget is over: root.choose_best_node(); MCTS.choose_move returns
\* best_child.position, AsyncMCTS.loop_func sets root.parent = None and sends
\* root.position, and both raise on None
LegacyEngineMove ==
    /\ phase = "think"
    /\ pc = "select"
    /\ \E r \in {legacy_choose_best_node(nodes, root)} :
          IF r.raised \/ r.index = None
          THEN /\ choice' = [made |-> TRUE, node |-> root, raised |-> TRUE, index |-> 0]
               /\ pc' = "raised"
               /\ UNCHANGED <<nodes, root, phase>>
          ELSE LET child == Kids(nodes[root])[r.index]
               IN  /\ choice' = [made |-> TRUE, node |-> root, raised |-> FALSE,
                                 index |-> r.index]
                   /\ IF mode = "sync"
                      THEN /\ phase' = "returned" /\ pc' = "returned"
                           /\ UNCHANGED <<nodes, root>>
                      ELSE /\ root' = child
                           /\ nodes' = [nodes EXCEPT ![child].parent = None]
                           /\ phase' = "ponder" /\ pc' = "select"
    /\ best_node' = None
    /\ UNCHANGED <<game, mmvars, mg, pipe, variant, net, batch, mode>>

NextLegacy == LegacyIterate \/ LegacyUserMove \/ LegacyEngineMove

SpecLegacy == InitLegacy /\ [][NextLegacy]_vars

\* C34: in the first rollout search choose_rollout_node returns a node to
\* run a rollout on from every tree the loops reach, also when the selection
\* comes to a visited position where the game is over; and when the time
\* budget of the pondering loop ends, choose_best_node has a child to report.
C34_LegacySelectionReturnsNode ==
    /\ pc = "select" => ~choose_rollout_node(nodes, root).raised
    /\ (mode = "async" /\ phase = "think" /\ pc = "select") =>
          LET r == legacy_choose_best_node(nodes, root)
          IN  ~r.raised /\ r.index # None


----------------------------------------------------------------------------
(* The evaluator process serving two sections of proxies (Network.py:      *)
(* Network.dual_architecture_process_loop, ProxyNetwork).  Section A has   *)
(* the pipes 1..Threads, section B the pipes Threads+1..2*Threads.  pipe.up *)
(* holds what a proxy has sent and the loop has not received, pipe.down    *)
(* what the loop has sent and the proxy has not received.                  *)

PipesA == 1..Threads

PipesB == (Threads + 1)..(2 * Threads)

\* the batches of positions a proxy may ask for
DualRequests == { <<1>>, <<2>>, <<2, 1>> }

\* an evaluator that tells the positions apart
DualNet == [value  |-> <<-1, 1>>,
            policy |-> << <<300, 700>>, <<500, 500>> >>]

RECURSIVE concatenate(_)

\* np.concatenate(requests, axis=0)
concatenate(requests) ==
    IF requests = <<>> THEN <<>> ELSE Head(requests) \o concatenate(Tail(requests))

\* send_results pairing every request with the results from the start
send_results_from_start(requests, results) ==
    [i \in 1..Len(requests) |-> SubSeq(results, 1, Len(requests[i]))]

\* send_results(requests, results, pipes): what is sent on the i-th pipe,
\* results[pos:new_pos] with pos advanced by request.shape[0]
send_results(requests, results) ==
    LET pos(i) == Len(concatenate(SubSeq(requests, 1, i - 1)))
    IN  [i \in 1..Len(requests) |-> SubSeq(results, pos(i) + 1, pos(i) + Len(requests[i]))]

InitDual ==
    /\ game = TicTacToeGame
    /\ MMIdle
    /\ variant = "heuristic"
    /\ net = DualNet
    /\ batch = 1
    /\ nodes = <<>>
    /\ root = None
    /\ best_node = None
    /\ mode = "dual"
    /\ phase = "idle"
    /\ pc = "first"
    /\ choice = NoChoice
    /\ mg = [stage |-> "dual", requests_a |-> <<>>, results_a |-> <<>>,
             requests_b |-> <<>>, results_b |-> <<>>, sent |-> <<>>,
             proxy |-> [p \in PipesA \cup PipesB |->
                           [waiting |-> FALSE, request |-> <<>>, result |-> <<>>,
                            calls |-> 0]]]
    /\ pipe = [host |-> "dual",
               up |-> [p \in PipesA \cup PipesB |-> <<>>],
               down |-> [p \in PipesA \cup PipesB |-> <<>>]]

\* ProxyNetwork.call: self.model_pipe.send(state)
ProxyCall ==
    /\ mode = "dual"
    /\ \E p \in PipesA \cup PipesB, state \in DualRequests :
          /\ ~mg.proxy[p].waiting
          /\ mg.proxy[p].calls < MaxCalls
          /\ mg' = [mg EXCEPT !.proxy[p] = [waiting |-> TRUE, request |-> state,
                                            result |-> <<>>, calls |-> @.calls + 1]]
          /\ pipe' = [pipe EXCEPT !.up[p] = Append(@, state)]
    /\ UNCHANGED <<game, mmvars, variant, net, batch, nodes, root, best_node, mode,
                   phase, pc, choice>>

\* ProxyNetwork.call: return self.model_pipe.recv()
ProxyReturn ==
    /\ mode = "dual"
    /\ \E p \in PipesA \cup PipesB :
          /\ mg.proxy[p].waiting
          /\ pipe.down[p] # <<>>
          /\ mg' = [mg EXCEPT !.proxy[p].waiting = FALSE,
                              !.proxy[p].result = Head(pipe.down[p])]
          /\ pipe' = [pipe EXCEPT !.down[p] = Tail(@)]
    /\ UNCHANGED <<game, mmvars, variant, net, batch, nodes, root, best_node, mode,
                   phase, pc, choice>>

\* the heads of the pipes of a section, in the order of the pipes: what
\* [worker_pipe.recv() for worker_pipe in worker_pipes] returns once every
\* pipe has delivered
Received(pipes) == [i \in 1..Threads |-> Head(pipe.up[Min(pipes) + i - 1])]

\* the pipes after those receptions and after send_results on the pipes of
\* the other section
Exchanged(received, sending, requests, results) ==
    [pipe EXCEPT
        !.up = [p \in DOMAIN pipe.up |->
                   IF p \in received THEN Tail(pipe.up[p]) ELSE pipe.up[p]],
        !.down = [p \in DOMAIN pipe.down |->
                     IF p \in sending
                     THEN Append(pipe.down[p],
                                 send_results(requests, results)[p - Min(sending) + 1])
                     ELSE pipe.down[p]]]

\* before the loop: the first requests of section A are received and
\* evaluated
DualFirst ==
    /\ pc = "first"
    /\ \A p \in PipesA : pipe.up[p] # <<>>
    /\ mg' = [mg EXCEPT !.requests_a = Received(PipesA),
                        !.results_a = network_call(concatenate(Received(PipesA)))]
    /\ pipe' = Exchanged(PipesA, {}, <<>>, <<>>)
    /\ pc' = "receive_b"
    /\ UNCHANGED <<game, mmvars, variant, net, batch, nodes, root, best_node, mode,
                   phase, choice>>

\* first half of the loop body: receive B requests, return A results,
\* compute B results
DualReceiveB ==
    /\ pc = "receive_b"
    /\ \A p \in PipesB : pipe.up[p] # <<>>
    /\ mg' = [mg EXCEPT !.requests_b = Received(PipesB),
                        !.results_b = network_call(concatenate(Received(PipesB))),
                        !.sent = Append(@, "A")]
    /\ pipe' = Exchanged(PipesB, PipesA, mg.requests_a, mg.results_a)
    /\ pc' = "receive_a"
    /\ UNCHANGED <<game, mmvars, variant, net, batch, nodes, root, best_node, mode,
                   phase, choice>>

\* second half: receive A requests, return B results, compute A results
DualReceiveA ==
    /\ pc = "receive_a"
    /\ \A p \in PipesA : pipe.up[p] # <<>>
    /\ mg' = [mg EXCEPT !.requests_a = Received(PipesA),
                        !.results_a = network_call(concatenate(Received(PipesA))),
                        !.sent = Append(@, "B")]
    /\ pipe' = Exchanged(PipesA, PipesB, mg.requests_b, mg.results_b)
    /\ pc' = "receive_b"
    /\ UNCHANGED <<game, mmvars, variant, net, batch, nodes, root, best_node, mode,
                   phase, choice>>

NextDual == ProxyCall \/ ProxyReturn \/ DualFirst \/ DualReceiveB \/ DualReceiveA

SpecDual == InitDual /\ [][NextDual]_vars


\* C35: a proxy that has sent a request of k positions and is waiting has at
\* most one response on its way, and a proxy that is not waiting has none;
\* every response on its way or returned holds k results, the evaluations of
\* the proxy's own positions in their order; the responses to the sections
\* alternate, A first; and each response to A is sent when as many batches
\* of B requests have been received as A has had responses, each response to
\* B when section A has sent its next requests (one batch more than B has
\* had responses).
C35_OwnResultsInTurn ==
    mode = "dual" =>
        /\ \A p \in PipesA \cup PipesB :
              LET proxy == mg.proxy[p]
              IN  /\ Len(pipe.down[p]) <= 1
                  /\ pipe.down[p] # <<>> =>
                        /\ proxy.waiting
                        /\ pipe.up[p] = <<>>
                        /\ Len(pipe.down[p][1]) = Len(proxy.request)
                        /\ pipe.down[p][1] = network_call(proxy.request)
                  /\ (~proxy.waiting /\ proxy.calls > 0) =>
                        /\ Len(proxy.result) = Len(proxy.request)
                        /\ \A k \in 1..Len(proxy.request) :
                              /\ proxy.result[k].evaluation = net.value[proxy.request[k]]
                              /\ proxy.result[k].policy = net.policy[proxy.request[k]]
        /\ \A k \in 1..Len(mg.sent) :
              mg.sent[k] = IF k % 2 = 1 THEN "A" ELSE "B"
        /\ pc = "first" => mg.sent = <<>>
        /\ \A p \in PipesA :
              \* the batches received from p: one more than the responses
              \* section B has had
              LET received == mg.proxy[p].calls - Len(pipe.up[p])
              IN  /\ pc # "first" => received = Len(mg.sent) \div 2 + 1
                  /\ pc = "receive_b" => mg.requests_a[p] = mg.proxy[p].request
        /\ \A p \in PipesB :
              LET received == mg.proxy[p].calls - Len(pipe.up[p])
              IN  /\ received = (Len(mg.sent) + 1) \div 2
                  /\ pc = "receive_a" => mg.requests_b[p - Threads] = mg.proxy[p].request

\* C35 witness: the loop has answered both sections; a proxy of section B
\* has its results for a batch of two positions and the proxy before it in
\* its section those for one position, with another evaluation; the proxies
\* of section A have had a response each and wait for the next.
C35_Witness ==
    /\ mode = "dual"
    /\ Len(mg.sent) = 2
    /\ \E p, q \in PipesB :
          /\ ~mg.proxy[q].waiting /\ Len(mg.proxy[q].result) = 2
          /\ p < q
          /\ ~mg.proxy[p].waiting /\ Len(mg.proxy[p].result) = 1
          /\ mg.proxy[q].result[1] # mg.proxy[p].result[1]
    /\ \A p \in PipesA : mg.proxy[p].waiting /\ mg.proxy[p].calls = 2

============================================================================
